---- MODULE Spec2Model ----
(***************************************************************************)
(* Dexter: the filesystem cache (src/cache/cache-service.ts), the SQLite   *)
(* session store (src/db/database.ts) and the task orchestration loop of   *)
(* spec.md section 4.7.  The cache and the store are translated from the   *)
(* TypeScript source; the orchestration loop has no source file and is     *)
(* translated from the transition rules of spec.md.                        *)
(*                                                                         *)
(* The specifications of the module: SpecCache, SpecPurge (the cache with  *)
(* its purge operations), SpecStore, SpecWrites (every write of the store, *)
(* with a reopen), SpecSessions (the session list), SpecProvider,          *)
(* SpecOptOut (the provider over a filled cache), SpecShared, SpecRegistry *)
(* (provider choice and capability dispatch), SpecLoop (one loop           *)
(* execution), SpecWaves (the loop with Plan versions that keep what is    *)
(* done) and SpecResume (a session whose loop is stopped and resumed,      *)
(* src/index.tsx); SpecTtl (the cache under a configured TTL),             *)
(* SpecIntegrity (cache keys of argument objects), SpecFetch (the provider *)
(* over a failing network), SpecFactory (createFinancialProvider), SpecKey *)
(* (the provider without its API key) and SpecSelector (the key handler of *)
(* the ProviderSelector component).                                        *)
(***************************************************************************)
EXTENDS Integers, Sequences, FiniteSets, TLC

(* ------------------------------ bounds -------------------------------- *)

\* The clock advances MaxTicks times.
MaxTicks == 1

(* ------------------------- program constants -------------------------- *)

\* cache-service.ts:25  24 * 60 * 60 * 1000
DefaultTTL == 86400000

\* One step of the clock: the default TTL, so that an entry's age can be
\* below and equal to the default TTL, and below and above a configured TTL
\* of half of it.
TickMs == DefaultTTL

VARIABLES
    \* clock: what Date.now() returns
    now,
    \* CacheService
    options,        \* the options the CacheService was constructed with
    ttl,            \* this.ttl
    files,          \* the files of this.cacheDir: path -> text
    dirs,           \* the directories that exist at and below this.cacheDir
    lastSet,        \* the set call that ran last, with nothing but time passing since
    lastGet,        \* the get or purge call that ran last: its arguments, faults and result
    \* DatabaseService
    sessions,       \* table sessions: id -> row
    messages,       \* table messages, in insertion (rowid) order
    artifacts,      \* table research_artifacts, in insertion (rowid) order
    lastRead,       \* what the last getSessionMessages / getSessionArtifacts returned
    \* one cache file shared by several processes
    disk,           \* the file: whether it exists, and its two halves
    procs,          \* the processes inside set: where each one is
    seen,           \* what the last get of a process returned
    \* FinancialDatasetsProvider
    providerArgs,   \* the constructor's enableCache argument and process.env.DISABLE_CACHE
    apiKey,         \* this.apiKey is set
    enableCache,    \* this.enableCache
    lastCall,       \* the provider call that ran last: its arguments and result
    \* ReflectorLoop (spec.md 4.7) of one session
    loopState,      \* Planning, Executing, Validating, Reflecting, Synthesizing, Done, Aborted
    plan,           \* the current Plan version: task id -> [digest, deps, status]
    exec,           \* the current wave: task id -> [phase, attempts, failure]
    maxSteps,       \* Budget.maxSteps
    maxCostUSD,     \* Budget.maxCostUSD
    stepsUsed,      \* Budget.stepsUsed
    costUsedUSD,    \* Budget.costUsedUSD
    digestAttempts, \* loop detector: digest -> attempts since it last produced a Satisfied artifact
    stalled,        \* the flag handed to the Synthesizer
    cancelRequested,\* the user has interrupted
    cancelObserved, \* the loop has seen the interrupt
    dispatches,     \* how many times the Executor was invoked
    waves,          \* how many Executing phases were entered
    \* the dexter processes started on the loop's session (src/index.tsx)
    other,          \* a second process: off, or its ReflectorLoop runs on the session
    resumes,        \* how many times the session was resumed
    \* the provider registry (src/providers/yahoo-finance-provider.ts 221-255)
    provider,       \* the name of the provider createFinancialProvider returned
    call,           \* the dispatch that ran last: capability, phase, attempts, failure
    \* DatabaseService, observed by its caller
    lastWrite,      \* the write that ran last: its operation, session and whether it threw
    \* ProviderSelector (src/components, part_000 54-73)
    selectedIndex,  \* the state of useState: the index of the highlighted provider
    lastKey,        \* the key event useInput handled last
    onSelectCalls   \* the arguments onSelect was called with, oldest first

cacheVars == <<options, ttl, files, dirs, lastSet, lastGet>>
storeVars == <<sessions, messages, artifacts, lastRead>>
loopVars == <<loopState, plan, exec, maxSteps, maxCostUSD, stepsUsed, costUsedUSD,
              digestAttempts, stalled, cancelRequested, cancelObserved, dispatches, waves,
              other, resumes>>
providerVars == <<providerArgs, apiKey, enableCache, lastCall>>
sharedVars == <<disk, procs, seen>>
vars == <<now, options, ttl, files, dirs, lastSet, lastGet, sessions, messages, artifacts, lastRead,
          providerArgs, apiKey, enableCache, lastCall, disk, procs, seen,
          loopState, plan, exec, maxSteps, maxCostUSD, stepsUsed, costUsedUSD,
          digestAttempts, stalled, cancelRequested, cancelObserved, dispatches, waves,
          other, resumes, provider, call, lastWrite, selectedIndex, lastKey, onSelectCalls>>

registryVars == <<provider, call>>
selectorVars == <<selectedIndex, lastKey, onSelectCalls>>

\* What the operations of one component leave alone.
CacheFrame == UNCHANGED <<storeVars, loopVars, providerVars, sharedVars, registryVars, lastWrite, selectorVars>>
StoreFrame == UNCHANGED <<cacheVars, loopVars, providerVars, sharedVars, registryVars, lastWrite, selectorVars>>
ProviderFrame == UNCHANGED <<storeVars, loopVars, sharedVars, registryVars, lastWrite, selectorVars>>
SharedFrame == UNCHANGED <<storeVars, loopVars, providerVars, registryVars, lastWrite, selectorVars>>

(* ====================================================================== *)
(*                 CacheService  (src/cache/cache-service.ts)             *)
(* ====================================================================== *)

\* JavaScript values that are not payloads
Undefined == "undefined"
Null == "null"

\* Object.keys(params).sort(): the default sort orders keys by UTF-16 code
\* units; KeyOrder lists the keys the model uses in that order.
KeyOrder == <<"date", "end_date", "limit", "start_date", "ticker">>

KeyRank(k) == CHOOSE i \in 1..Len(KeyOrder) : KeyOrder[i] = k

\* Argument values: a string, a number or undefined (an optional argument
\* the provider passes without a value).
StrVal(s) == [t |-> "string", v |-> s]
NumVal(n) == [t |-> "number", v |-> n]
UndefVal == [t |-> "undefined", v |-> "undefined"]
NullVal == [t |-> "null", v |-> "null"]

\* JSON.stringify(value) inside the template string: a string is quoted, a
\* number is printed bare (NaN as null), null prints as null, undefined
\* prints as the word undefined.
JSONstringifyValue(val) ==
    CASE val.t = "string" -> <<"\"", val.v, "\"">>
      [] val.t = "number" -> IF val.v = "NaN" THEN <<"null">> ELSE <<val.v>>
      [] val.t = "null" -> <<"null">>
      [] OTHER -> <<"undefined">>

\* An argument object is a sequence of <<key, value>> pairs with distinct
\* keys, in insertion order.
ObjectKeys(params) == [i \in 1..Len(params) |-> params[i][1]]

Lookup(params, k) == (CHOOSE i \in 1..Len(params) : params[i][1] = k)

\* Array.prototype.sort on the keys: insertion sort by KeyRank.
RECURSIVE InsertSorted(_, _)
InsertSorted(k, s) ==
    IF s = <<>> THEN <<k>>
    ELSE IF KeyRank(k) <= KeyRank(Head(s)) THEN <<k>> \o s
    ELSE <<Head(s)>> \o InsertSorted(k, Tail(s))

RECURSIVE SortKeys(_)
SortKeys(ks) ==
    IF ks = <<>> THEN <<>> ELSE InsertSorted(Head(ks), SortKeys(Tail(ks)))

\* generateKey, lines 37-40: `${key}=${JSON.stringify(params[key])}` of the
\* sorted keys, joined by '&' (the sequence stands for the joined string).
sortedParams(params) ==
    LET ks == SortKeys(ObjectKeys(params))
    IN  [i \in 1..Len(ks) |->
            <<ks[i], "=", JSONstringifyValue(params[Lookup(params, ks[i])][2])>>]

\* createHash('md5').update(s).digest('hex'), taken to be collision-free.
md5(s) == <<"md5", s>>

\* A buggy generateKey: the hash leaves the arguments out.
generateKeyPrefixOnly(prefix, params) == [prefix |-> prefix, hash |-> md5(<<>>)]

\* A prefix is the sequence of its '/'-separated segments:
\* 'financialdatasets_/prices/' is <<"financialdatasets_", "prices", "">>.
\* The key `${prefix}_${hash}` keeps the prefix and the hash apart.
generateKey(prefix, params) == [prefix |-> prefix, hash |-> md5(sortedParams(params))]

\* join(this.cacheDir, `${key}.json`): every '/' of the key separates two
\* path components, so all but the last segment of the prefix name
\* directories below cacheDir.
getFilePath(key) ==
    [dir  |-> SubSeq(key.prefix, 1, Len(key.prefix) - 1),
     file |-> <<key.prefix[Len(key.prefix)], "_", key.hash, ".json">>]

\* The directories the program makes: the constructor creates cacheDir
\* itself (<<>>) and nothing in the class creates another one.
ExistingDirs == {<<>>}

\* A buggy isValid: an entry exactly TTL old still counts as valid.
isValidInclusive(timestamp) == now - timestamp <= ttl

\* isValid, line 57.
isValid(timestamp) == now - timestamp < ttl

existsSync(fs, path) == path \in DOMAIN fs

\* File texts.  JSON.stringify(entry) of a CacheEntry writes an object with
\* the fields data, timestamp and key; a data of undefined is left out and a
\* NaN is written as null.
JSONstringifyEntry(entry) ==
    [kind |-> "object",
     obj  |-> IF entry.data = Undefined
              THEN [timestamp |-> entry.timestamp, key |-> entry.key]
              ELSE [data |-> IF entry.data = "NaN" THEN Null ELSE entry.data,
                    timestamp |-> entry.timestamp, key |-> entry.key]]

\* What JSON.parse makes of a text: it throws on garbage, yields null for
\* the text null, and an object otherwise.
ParseThrows(text) == text.kind = "garbage"

\* entry.timestamp / entry.data of the parsed value: reading a property of
\* null throws a TypeError; a missing property reads as undefined.
PropertyThrows(text) == text.kind = "null"

HasField(text, f) == text.kind = "object" /\ f \in DOMAIN text.obj

\* this.isValid(entry.timestamp): Date.now() - undefined is NaN, and
\* NaN < ttl is false.
EntryValid(text) == HasField(text, "timestamp") /\ isValid(text.obj.timestamp)

EntryData(text) == IF HasField(text, "data") THEN text.obj.data ELSE Undefined

Remove(fs, path) == [p \in DOMAIN fs \ {path} |-> fs[p]]

Put(fs, path, text) == [p \in DOMAIN fs \cup {path} |-> IF p = path THEN text ELSE fs[p]]

\* A buggy get: a read or parse error returns absent without the delete.
getKeepCorrupt(fs, prefix, params, readOk, unlinkOk, unlinkAgainOk) ==
    LET filePath == getFilePath(generateKey(prefix, params))
    IN  IF ~existsSync(fs, filePath)
        THEN [ret |-> Null, fs |-> fs, raised |-> FALSE]
        ELSE IF ~readOk \/ ParseThrows(fs[filePath]) \/ PropertyThrows(fs[filePath])
        THEN [ret |-> Null, fs |-> fs, raised |-> FALSE]
        ELSE IF ~EntryValid(fs[filePath])
        THEN [ret |-> Null,
              fs  |-> IF unlinkOk \/ unlinkAgainOk THEN Remove(fs, filePath) ELSE fs,
              raised |-> FALSE]
        ELSE [ret |-> EntryData(fs[filePath]), fs |-> fs, raised |-> FALSE]

\* get, lines 63-91.  readOk: readFileSync succeeds; unlinkOk: the
\* unlinkSync of line 77 succeeds; unlinkAgainOk: the unlinkSync of line 85
\* succeeds.  Returns the value returned (ret), the files left (fs), and
\* whether the call raised: every statement that can throw is inside the
\* try of line 71 or the try of line 84.
get(fs, prefix, params, readOk, unlinkOk, unlinkAgainOk) ==
    LET filePath == getFilePath(generateKey(prefix, params))
    IN  IF ~existsSync(fs, filePath)
        THEN [ret |-> Null, fs |-> fs, raised |-> FALSE]
        \* lines 72-73 throw, or line 75 throws reading a property of null:
        \* the catch block deletes the file, ignoring a failing delete
        ELSE IF ~readOk \/ ParseThrows(fs[filePath]) \/ PropertyThrows(fs[filePath])
        THEN [ret |-> Null, fs |-> IF unlinkAgainOk THEN Remove(fs, filePath) ELSE fs,
              raised |-> FALSE]
        \* lines 75-79: expired; a throwing unlinkSync lands in the catch
        \* block, which tries the delete again
        ELSE IF ~EntryValid(fs[filePath])
        THEN [ret |-> Null,
              fs  |-> IF unlinkOk \/ unlinkAgainOk THEN Remove(fs, filePath) ELSE fs,
              raised |-> FALSE]
        ELSE [ret |-> EntryData(fs[filePath]), fs |-> fs, raised |-> FALSE]

\* writeFileSync(filePath, text): fails (ENOENT) when the directory of the
\* path does not exist, or when the environment makes it fail (writeOk).
writeFileSyncOk(path, writeOk) == writeOk /\ path.dir \in dirs

\* set, lines 96-111: returns the files left and whether the call raised;
\* a failing write is caught and ignored.
set(fs, prefix, params, data, writeOk) ==
    LET key == generateKey(prefix, params)
        filePath == getFilePath(key)
        entry == [data |-> data, timestamp |-> now, key |-> key]
    IN  [fs |-> IF writeFileSyncOk(filePath, writeOk)
                THEN Put(fs, filePath, JSONstringifyEntry(entry))
                ELSE fs,
         raised |-> FALSE]

(* ---------------------- the cache's inputs ---------------------------- *)

\* 'prices' has no '/'; 'financialdatasets_/prices/' is what
\* FinancialDatasetsProvider.callApi passes for the endpoint '/prices/'
\* (financial-datasets-provider.ts:55, 136, 144).
Prefixes == {<<"prices">>, <<"financialdatasets_", "prices", "">>}

\* Argument objects: {ticker}, and {ticker, limit} in both insertion orders.
ParamObjects ==
    { << <<"ticker", StrVal("AAPL")>> >>,
      << <<"ticker", StrVal("AAPL")>>, <<"limit", NumVal("5")>> >>,
      << <<"limit", NumVal("5")>>, <<"ticker", StrVal("AAPL")>> >> }

\* Payloads: two JSON values.
Payloads == {"p1", "p2"}

\* The same key/value pairs, whatever the insertion order.
SameArgs(p, q) == {p[i] : i \in 1..Len(p)} = {q[i] : i \in 1..Len(q)}

AllPaths == {getFilePath(generateKey(pre, par)) : pre \in Prefixes, par \in ParamObjects}

\* Texts another program, a crash or a disk error can leave in a cache
\* file: unparseable bytes, the JSON text null, an object without a
\* timestamp, and an object with a timestamp but no key.
ForeignTexts ==
    {[kind |-> "garbage"], [kind |-> "null"],
     [kind |-> "object", obj |-> [data |-> "p1"]]}
    \cup {[kind |-> "object", obj |-> [data |-> "p1", timestamp |-> 0]]}

\* What the environment can do to one get call.  A failing read never
\* reaches the unlinkSync of line 77, and a succeeding unlinkSync of line 77
\* never reaches the one of line 85, so five cases cover every outcome.
GetFaults ==
    {[readOk |-> TRUE,  unlinkOk |-> TRUE,  unlinkAgainOk |-> TRUE],
     [readOk |-> TRUE,  unlinkOk |-> FALSE, unlinkAgainOk |-> TRUE],
     [readOk |-> TRUE,  unlinkOk |-> FALSE, unlinkAgainOk |-> FALSE],
     [readOk |-> FALSE, unlinkOk |-> TRUE,  unlinkAgainOk |-> TRUE],
     [readOk |-> FALSE, unlinkOk |-> TRUE,  unlinkAgainOk |-> FALSE]}

NoCall == [op |-> "none"]

(* ---------------------- the cache's actions --------------------------- *)

\* The options of the constructor: {} (no ttl given) or {ttl: T}.
NoOptions == [given |-> FALSE, ttl |-> 0]
TtlOption(T) == [given |-> TRUE, ttl |-> T]

\* constructor, line 25: options.ttl || 24 hours (0 and undefined are falsy).
CacheServiceTtl(opts) == IF ~opts.given \/ opts.ttl = 0 THEN DefaultTTL ELSE opts.ttl

InitCacheVars ==
    /\ options \in {NoOptions, TtlOption(DefaultTTL \div 2)}
    /\ ttl = CacheServiceTtl(options)
    /\ files = <<>>
    /\ dirs = ExistingDirs
    /\ lastSet = NoCall
    /\ lastGet = NoCall

CacheSet(prefix, params, data, writeOk) ==
    LET r == set(files, prefix, params, data, writeOk)
    IN  /\ files' = r.fs
        /\ lastSet' = [op |-> "set", prefix |-> prefix, params |-> params, data |-> data,
                       at |-> now, writeOk |-> writeOk, raised |-> r.raised]
        /\ lastGet' = NoCall
        /\ UNCHANGED <<now, options, ttl, dirs>>

\* What a get call met in storage, read off the files before the call:
\* found is missing, unreadable, unparseable, null or object; age is the
\* age of an object's timestamp (-1 when it has none); entire tells whether
\* an object has all three fields of a CacheEntry.
Met(filePath, readOk) ==
    IF ~existsSync(files, filePath) THEN [found |-> "missing", age |-> -1, entire |-> FALSE]
    ELSE IF ~readOk THEN [found |-> "unreadable", age |-> -1, entire |-> FALSE]
    ELSE IF files[filePath].kind = "garbage"
    THEN [found |-> "unparseable", age |-> -1, entire |-> FALSE]
    ELSE IF files[filePath].kind = "null" THEN [found |-> "null", age |-> -1, entire |-> FALSE]
    ELSE [found |-> "object",
          age |-> IF "timestamp" \in DOMAIN files[filePath].obj
                  THEN now - files[filePath].obj.timestamp ELSE -1,
          entire |-> DOMAIN files[filePath].obj = {"data", "timestamp", "key"}]

\* A get call.  The record keeps the prefix, the faults of the call,
\* what the call met, what it returned, whether the file is still there,
\* and, when the call follows a set of the same prefix and key/value pairs
\* whose write the environment did not fail, the payload of that set and
\* the time passed since.
CacheGet(prefix, params, readOk, unlinkOk, unlinkAgainOk) ==
    LET r == get(files, prefix, params, readOk, unlinkOk, unlinkAgainOk)
        filePath == getFilePath(generateKey(prefix, params))
        exercised == existsSync(files, filePath)
        follows == /\ lastSet.op = "set"
                   /\ lastSet.writeOk
                   /\ lastSet.prefix = prefix
                   /\ SameArgs(lastSet.params, params)
    IN  /\ files' = r.fs
        /\ lastGet' = [op |-> "get", prefix |-> prefix, params |-> params,
                       readOk |-> ~exercised \/ readOk,
                       unlinkOk |-> ~exercised \/ unlinkOk,
                       unlinkAgainOk |-> ~exercised \/ unlinkAgainOk,
                       met |-> Met(filePath, readOk),
                       ret |-> r.ret, raised |-> r.raised,
                       holds |-> existsSync(r.fs, filePath),
                       afterSet |-> follows,
                       stored |-> IF follows THEN lastSet.data ELSE Null,
                       elapsed |-> IF follows THEN now - lastSet.at ELSE 0]
        /\ lastSet' = NoCall
        /\ UNCHANGED <<now, options, ttl, dirs>>

\* Another program writes a cache file (the directory is shared and
\* unlocked), or a write is cut short.
ForeignWrite(path, text) ==
    /\ path.dir \in dirs
    /\ files' = Put(files, path, text)
    /\ lastSet' = NoCall
    /\ lastGet' = NoCall
    /\ UNCHANGED <<now, options, ttl, dirs>>

Tick ==
    /\ now < MaxTicks * TickMs
    /\ now' = now + TickMs

CacheTick ==
    /\ Tick
    /\ UNCHANGED <<options, ttl, files, dirs, lastSet, lastGet>>

(* ====================================================================== *)
(*   FinancialDatasetsProvider  (src/providers/financial-datasets-provider.ts)  *)
(* ====================================================================== *)

\* The endpoint '/prices/' as the segments after its leading '/'.
PricesEndpoint == <<"prices", "">>

\* callApi, line 55: `financialdatasets_${endpoint}`.
cacheKeyOf(endpoint) == <<"financialdatasets_">> \o endpoint

\* Tickers: one the upstream API knows, one it answers with an error status.
Tickers == {"AAPL", "NOPE"}
Limits == {UndefVal, NumVal("5")}

\* The argument objects the public methods build (lines 136-139, 144-149):
\* the keys come in the order of the object literal, an argument the caller
\* left out is undefined.
getPriceSnapshotParams(ticker) ==
    << <<"ticker", StrVal(ticker)>>, <<"date", UndefVal>> >>

getPriceHistoryParams(ticker, limit) ==
    << <<"ticker", StrVal(ticker)>>, <<"start_date", UndefVal>>,
       <<"end_date", UndefVal>>, <<"limit", limit>> >>

\* callApi, lines 63-74: the URL carries the defined arguments in the order
\* of Object.entries(params), each as String(value).
RECURSIVE SearchParams(_)
SearchParams(params) ==
    IF params = <<>> THEN <<>>
    ELSE IF Head(params)[2].t = "undefined" THEN SearchParams(Tail(params))
    ELSE << <<Head(params)[1], Head(params)[2].v>> >> \o SearchParams(Tail(params))

UrlOf(endpoint, params) == [endpoint |-> endpoint, query |-> SearchParams(params)]

\* The upstream API, a fixed function of the request: an error status for
\* the ticker NOPE, and otherwise a JSON body that depends on the URL.
UpstreamOk(url) == \A i \in 1..Len(url.query) : url.query[i] # <<"ticker", "NOPE">>

\* callApi, line 87: result = {data, url}.  The object is named by a string
\* (payloads are strings in the model); ResultUrl and ResultData read its
\* two fields.
ResultTable ==
    { [name |-> "r1", url |-> UrlOf(PricesEndpoint, getPriceHistoryParams("AAPL", UndefVal))],
      [name |-> "r2", url |-> UrlOf(PricesEndpoint, getPriceHistoryParams("AAPL", NumVal("5")))] }

ResultOf(url) == (CHOOSE r \in ResultTable : r.url = url).name
ResultUrl(name) == (CHOOSE r \in ResultTable : r.name = name).url
ResultData(name) == [prices |-> <<"prices for", ResultUrl(name).query>>]

\* if (cached): null and undefined are falsy, a result object is truthy.
Truthy(v) == v \notin {Null, Undefined}

\* fetch, line 76: the request itself throws (a network error) when the
\* faults of the call say so; faults that do not mention the network leave
\* it working.
fetchOk(f) == IF "fetchOk" \in DOMAIN f THEN f.fetchOk ELSE TRUE

\* A buggy callApi: the answer of a failed request is cached before the
\* call raises.
callApiCachesFailures(fs, endpoint, params, f, writeOk) ==
    LET cacheKey == cacheKeyOf(endpoint)
        looked == IF enableCache
                  THEN get(fs, cacheKey, params, f.readOk, f.unlinkOk, f.unlinkAgainOk)
                  ELSE [ret |-> Null, fs |-> fs, raised |-> FALSE]
        url == UrlOf(endpoint, params)
    IN  IF ~apiKey
        THEN [threw |-> TRUE, result |-> Null, fetched |-> FALSE, fs |-> fs]
        ELSE IF enableCache /\ Truthy(looked.ret)
        THEN [threw |-> FALSE, result |-> looked.ret, fetched |-> FALSE, fs |-> looked.fs]
        ELSE IF ~fetchOk(f) \/ ~UpstreamOk(url)
        THEN [threw |-> TRUE, result |-> Null, fetched |-> TRUE,
              fs |-> IF enableCache
                     THEN set(looked.fs, cacheKey, params, "r1", writeOk).fs
                     ELSE looked.fs]
        ELSE [threw |-> FALSE, result |-> ResultOf(url), fetched |-> TRUE,
              fs |-> IF enableCache
                     THEN set(looked.fs, cacheKey, params, ResultOf(url), writeOk).fs
                     ELSE looked.fs]

\* A buggy callApi: the cache is looked up before the API key is tested, so
\* a cached answer is served without a key.
callApiCacheFirst(fs, endpoint, params, f, writeOk) ==
    LET cacheKey == cacheKeyOf(endpoint)
        looked == IF enableCache
                  THEN get(fs, cacheKey, params, f.readOk, f.unlinkOk, f.unlinkAgainOk)
                  ELSE [ret |-> Null, fs |-> fs, raised |-> FALSE]
        url == UrlOf(endpoint, params)
    IN  IF enableCache /\ Truthy(looked.ret)
        THEN [threw |-> FALSE, result |-> looked.ret, fetched |-> FALSE, fs |-> looked.fs]
        ELSE IF ~apiKey
        THEN [threw |-> TRUE, result |-> Null, fetched |-> FALSE, fs |-> looked.fs]
        ELSE IF ~fetchOk(f) \/ ~UpstreamOk(url)
        THEN [threw |-> TRUE, result |-> Null, fetched |-> TRUE, fs |-> looked.fs]
        ELSE [threw |-> FALSE, result |-> ResultOf(url), fetched |-> TRUE,
              fs |-> IF enableCache
                     THEN set(looked.fs, cacheKey, params, ResultOf(url), writeOk).fs
                     ELSE looked.fs]

\* callApi, lines 46-95.  f: the faults of the cache read and of the
\* network; writeOk: whether the environment lets the cache write succeed.
\* Returns whether the call threw, the result, whether the upstream API was
\* fetched, the files left.
callApi(fs, endpoint, params, f, writeOk) ==
    LET cacheKey == cacheKeyOf(endpoint)
        looked == IF enableCache
                  THEN get(fs, cacheKey, params, f.readOk, f.unlinkOk, f.unlinkAgainOk)
                  ELSE [ret |-> Null, fs |-> fs, raised |-> FALSE]
        url == UrlOf(endpoint, params)
    IN  IF ~apiKey
        THEN [threw |-> TRUE, result |-> Null, fetched |-> FALSE, fs |-> fs]
        ELSE IF enableCache /\ Truthy(looked.ret)
        THEN [threw |-> FALSE, result |-> looked.ret, fetched |-> FALSE, fs |-> looked.fs]
        \* line 76 throws, or line 83 throws on a status that is not OK
        ELSE IF ~fetchOk(f) \/ ~UpstreamOk(url)
        THEN [threw |-> TRUE, result |-> Null, fetched |-> TRUE, fs |-> looked.fs]
        ELSE [threw |-> FALSE, result |-> ResultOf(url), fetched |-> TRUE,
              fs |-> IF enableCache
                     THEN set(looked.fs, cacheKey, params, ResultOf(url), writeOk).fs
                     ELSE looked.fs]

\* getPriceSnapshot / getPriceHistory, lines 135-152: {data: data.prices || {},
\* source: url} of what callApi returns.
ProviderResponse(called) ==
    IF called.threw THEN [threw |-> TRUE]
    ELSE [threw |-> FALSE, data |-> ResultData(called.result).prices,
          source |-> ResultUrl(called.result)]

\* What the same call returns from a provider without a cache: the answer of
\* the upstream API.
Uncached(endpoint, params) ==
    LET url == UrlOf(endpoint, params)
    IN  IF ~apiKey \/ ~UpstreamOk(url) THEN [threw |-> TRUE]
        ELSE [threw |-> FALSE, data |-> [prices |-> <<"prices for", url.query>>].prices,
              source |-> url]

\* The calls of the model: the two public methods that use '/prices/'.
ProviderCalls ==
    {[method |-> "getPriceSnapshot", params |-> getPriceSnapshotParams(t)] : t \in Tickers}
    \cup {[method |-> "getPriceHistory", params |-> getPriceHistoryParams(t, l)] :
             t \in Tickers, l \in Limits}

\* process.env.DISABLE_CACHE: not set, or one of two texts.
DisableCacheValues == {Undefined, "true", "false"}

\* A buggy constructor: the environment is not consulted.
enableCacheIgnoresEnv(enableCacheArg, disableCacheEnv) == enableCacheArg

\* constructor, line 37: enableCache && (process.env.DISABLE_CACHE !== 'true').
enableCacheOf(enableCacheArg, disableCacheEnv) == enableCacheArg /\ disableCacheEnv # "true"

\* No provider is exercised.
InitProviderIdle ==
    /\ providerArgs = [enableCache |-> FALSE, DISABLE_CACHE |-> Undefined]
    /\ apiKey = FALSE
    /\ enableCache = FALSE
    /\ lastCall = NoCall

NoDispatch == [capability |-> "none", phase |-> "idle", attempts |-> 0, failure |-> "none"]

\* No provider is chosen and no write is observed while another component is
\* exercised on its own.
\* No key was handled.
NoKey == [input |-> "", name |-> "none"]

InitRegistryIdle ==
    /\ provider = "none"
    /\ call = NoDispatch
    /\ lastWrite = NoCall
    /\ selectedIndex = 0
    /\ lastKey = NoKey
    /\ onSelectCalls = <<>>

\* constructor, lines 33-38.  getCache() builds the CacheService with the
\* default options.  The directory cacheDir/financialdatasets_/prices is
\* made by nothing in the program; the user may have made it.
InitProvider ==
    /\ now = 0
    /\ options = NoOptions
    /\ ttl = CacheServiceTtl(options)
    /\ files = <<>>
    /\ dirs \in {ExistingDirs, ExistingDirs \cup {<<"financialdatasets_", "prices">>}}
    /\ lastSet = NoCall
    /\ lastGet = NoCall
    /\ providerArgs \in [enableCache : BOOLEAN, DISABLE_CACHE : DisableCacheValues]
    /\ apiKey \in BOOLEAN
    /\ enableCache = enableCacheOf(providerArgs.enableCache, providerArgs.DISABLE_CACHE)
    /\ lastCall = NoCall

\* One call of a public method.  The record keeps the call, its faults, what
\* it returned, what a provider without a cache returns for it, and whether
\* it repeats the call before it (same method and arguments, which
\* succeeded) and how long after.
ProviderCall(c, f, writeOk) ==
    LET called == callApi(files, PricesEndpoint, c.params, f, writeOk)
        repeats == /\ lastCall.op = "call"
                   /\ lastCall.method = c.method
                   /\ lastCall.params = c.params
                   /\ ~lastCall.response.threw
    IN  /\ files' = called.fs
        /\ lastCall' = [op |-> "call", method |-> c.method, params |-> c.params,
                        readOk |-> f.readOk, writeOk |-> writeOk, at |-> now,
                        response |-> ProviderResponse(called),
                        uncached |-> Uncached(PricesEndpoint, c.params),
                        fetched |-> called.fetched,
                        repeats |-> repeats,
                        stored |-> repeats /\ lastCall.writeOk,
                        elapsed |-> IF repeats THEN now - lastCall.at ELSE 0]
        /\ UNCHANGED <<now, options, ttl, dirs, lastSet, lastGet, providerArgs, apiKey, enableCache>>

ProviderTick ==
    /\ Tick
    /\ UNCHANGED <<cacheVars, providerVars>>

\* initialize, lines 40-44: throws when this.apiKey is falsy.
initialize == [threw |-> ~apiKey]

\* BaseFinancialProvider.isAvailable, part_001 lines 114-121: initialize in
\* a try block; true when it returns, false when it throws.
isAvailable == [ret |-> ~initialize.threw, raised |-> FALSE]

IsAvailable ==
    /\ lastCall' = [op |-> "isAvailable", ret |-> isAvailable.ret,
                    raised |-> isAvailable.raised]
    /\ UNCHANGED <<now, cacheVars, providerArgs, apiKey, enableCache>>

NextProvider ==
    \/ \E c \in ProviderCalls, f \in GetFaults, writeOk \in BOOLEAN :
          ProviderCall(c, f, writeOk) /\ ProviderFrame
    \/ ProviderTick /\ ProviderFrame

(* ====================================================================== *)
(*     one cache file used by several processes (cache-service.ts)        *)
(* ====================================================================== *)

\* A buggy clearExpired: the validity test is left out, so every file
\* directly in cacheDir is deleted.
clearExpiredValidToo(fs, readOk, unlinkOk, unlinkAgainOk) ==
    LET deleted == {path \in DOMAIN fs : path.dir = <<>> /\ (unlinkOk \/ unlinkAgainOk)}
    IN  [fs |-> [path \in DOMAIN fs \ deleted |-> fs[path]],
         cleared |-> Cardinality(deleted)]

\* clearExpired, lines 116-150, on the files directly in cacheDir (readdirSync
\* lists no file of a subdirectory): a file that cannot be read or parsed,
\* and a file that is not valid any more, is deleted; failing deletes are
\* ignored.  Returns the files left and the number deleted.
clearExpired(fs, readOk, unlinkOk, unlinkAgainOk) ==
    LET listed == {path \in DOMAIN fs : path.dir = <<>>}
        thrown(path) == ~readOk \/ ParseThrows(fs[path]) \/ PropertyThrows(fs[path])
        deleted == {path \in listed :
                       IF thrown(path) THEN unlinkAgainOk
                       ELSE ~EntryValid(fs[path]) /\ (unlinkOk \/ unlinkAgainOk)}
    IN  [fs |-> [path \in DOMAIN fs \ deleted |-> fs[path]],
         cleared |-> Cardinality(deleted)]

\* clearAll, lines 155-176: every file directly in cacheDir is deleted;
\* failing deletes are ignored.
clearAll(fs, unlinkOk) ==
    LET deleted == {path \in DOMAIN fs : path.dir = <<>> /\ unlinkOk}
    IN  [fs |-> [path \in DOMAIN fs \ deleted |-> fs[path]],
         cleared |-> Cardinality(deleted)]

\* The files clearExpired and clearAll list: those directly in cacheDir.
ListedFiles(fs) == {path \in DOMAIN fs : path.dir = <<>>}

\* getStats, lines 181-217, without the byte count: every file directly in
\* cacheDir counts towards total; a file that cannot be read or parsed
\* counts as expired.
getStats(fs, readOk) ==
    LET listed == {path \in DOMAIN fs : path.dir = <<>>}
        thrown(path) == ~readOk \/ ParseThrows(fs[path]) \/ PropertyThrows(fs[path])
        valid == {path \in listed : ~thrown(path) /\ EntryValid(fs[path])}
    IN  [total |-> Cardinality(listed),
         valid |-> Cardinality(valid),
         expired |-> Cardinality(listed \ valid)]

\* A clearExpired call.  The record keeps the files before the call, the
\* faults of the call, the count returned and the time of the call.
CacheClearExpired(readOk, unlinkOk, unlinkAgainOk) ==
    LET r == clearExpired(files, readOk, unlinkOk, unlinkAgainOk)
    IN  /\ files' = r.fs
        /\ lastGet' = [op |-> "clearExpired", before |-> files, at |-> now,
                       readOk |-> readOk, unlinkOk |-> unlinkOk,
                       unlinkAgainOk |-> unlinkAgainOk, cleared |-> r.cleared]
        /\ lastSet' = NoCall
        /\ UNCHANGED <<now, options, ttl, dirs>>

\* A clearAll call followed by getStats.
CacheClearAll(unlinkOk) ==
    LET r == clearAll(files, unlinkOk)
    IN  /\ files' = r.fs
        /\ lastGet' = [op |-> "clearAll", before |-> files, at |-> now,
                       unlinkOk |-> unlinkOk, cleared |-> r.cleared,
                       stats |-> getStats(r.fs, TRUE)]
        /\ lastSet' = NoCall
        /\ UNCHANGED <<now, options, ttl, dirs>>

\* The key all processes use, and its file.
SharedPrefix == <<"prices">>
SharedParams == << <<"ticker", StrVal("AAPL")>> >>
SharedPath == getFilePath(generateKey(SharedPrefix, SharedParams))

\* The processes that call set, each with a payload of its own.  The two
\* payloads stand for two responses whose JSON texts have the same length
\* and layout.
Writers == {1, 2}
PayloadOf(w) == IF w = 1 THEN "p1" ELSE "p2"

\* writeFileSync (line 107) opens the file with O_TRUNC and then writes the
\* text; it takes no lock and writes no temporary file.  The text is taken
\* in two halves (the first half of the data; the rest of the data, the
\* timestamp and the key), each written or seen at a time of its own.
NoHalf == [by |-> "none", at |-> 0]
EmptyFile == [exists |-> TRUE, halves |-> <<NoHalf, NoHalf>>]
NoFile == [exists |-> FALSE, halves |-> <<NoHalf, NoHalf>>]

\* What readFileSync returns for the file: an incomplete text is no JSON; two
\* halves of one text are the entry written; halves of two texts of the same
\* layout are a JSON text again, with data of both.
TextOf(d) ==
    IF d.halves[1].by = "none" \/ d.halves[2].by = "none" THEN [kind |-> "garbage"]
    ELSE [kind |-> "object",
          obj |-> [data |-> IF d.halves[1].by = d.halves[2].by THEN d.halves[1].by
                            ELSE "torn",
                   timestamp |-> d.halves[2].at,
                   key |-> generateKey(SharedPrefix, SharedParams)]]

\* The files of cacheDir as get, clearExpired and clearAll see them.
FilesOf(d) == IF d.exists THEN [path \in {SharedPath} |-> TextOf(d)] ELSE <<>>

\* unlinkSync removes the name; a process that has the file open keeps
\* writing to the removed file, which nobody reads.
Unlinked(ps) == [w \in Writers |-> [ps[w] EXCEPT !.attached = FALSE]]

InitSharedIdle ==
    /\ disk = NoFile
    /\ procs = <<>>
    /\ seen = NoCall

InitShared ==
    /\ now = 0
    /\ InitCacheVars
    /\ disk = NoFile
    /\ procs = [w \in Writers |-> [pc |-> "idle", at |-> 0, attached |-> FALSE]]
    /\ seen = NoCall

\* set, lines 96-107: the entry takes Date.now(); writeFileSync opens the
\* file, creating or truncating it.
SetOpen(w) ==
    /\ procs[w].pc = "idle"
    /\ disk' = EmptyFile
    /\ procs' = [procs EXCEPT ![w] = [pc |-> "opened", at |-> now, attached |-> TRUE]]
    /\ UNCHANGED <<now, cacheVars, seen>>

\* writeFileSync writes the first half of the text.
SetWriteFirst(w) ==
    /\ procs[w].pc = "opened"
    /\ disk' = IF procs[w].attached
               THEN [disk EXCEPT !.halves[1] = [by |-> PayloadOf(w), at |-> procs[w].at]]
               ELSE disk
    /\ procs' = [procs EXCEPT ![w].pc = "half"]
    /\ UNCHANGED <<now, cacheVars, seen>>

\* writeFileSync writes the second half, closes the file, and set returns.
SetWriteRest(w) ==
    /\ procs[w].pc = "half"
    /\ disk' = IF procs[w].attached
               THEN [disk EXCEPT !.halves[2] = [by |-> PayloadOf(w), at |-> procs[w].at]]
               ELSE disk
    /\ procs' = [procs EXCEPT ![w] = [pc |-> "idle", at |-> 0, attached |-> FALSE]]
    /\ UNCHANGED <<now, cacheVars, seen>>

\* A process calls get (lines 63-91) on the file as it is.
SharedGet ==
    LET r == get(FilesOf(disk), SharedPrefix, SharedParams, TRUE, TRUE, TRUE)
        removed == disk.exists /\ ~existsSync(r.fs, SharedPath)
    IN  /\ seen' = [op |-> "get", ret |-> r.ret, raised |-> r.raised]
        /\ disk' = IF removed THEN NoFile ELSE disk
        /\ procs' = IF removed THEN Unlinked(procs) ELSE procs
        /\ UNCHANGED <<now, cacheVars>>

\* A process calls clearExpired.
SharedClearExpired ==
    LET r == clearExpired(FilesOf(disk), TRUE, TRUE, TRUE)
    IN  /\ r.cleared > 0
        /\ disk' = NoFile
        /\ procs' = Unlinked(procs)
        /\ UNCHANGED <<now, cacheVars, seen>>

\* A process calls clearAll.
SharedClearAll ==
    LET r == clearAll(FilesOf(disk), TRUE)
    IN  /\ r.cleared > 0
        /\ disk' = NoFile
        /\ procs' = Unlinked(procs)
        /\ UNCHANGED <<now, cacheVars, seen>>

SharedTick ==
    /\ Tick
    /\ UNCHANGED <<cacheVars, sharedVars>>

NextShared ==
    \/ \E w \in Writers : SetOpen(w) /\ SharedFrame
    \/ \E w \in Writers : SetWriteFirst(w) /\ SharedFrame
    \/ \E w \in Writers : SetWriteRest(w) /\ SharedFrame
    \/ SharedGet /\ SharedFrame
    \/ SharedClearExpired /\ SharedFrame
    \/ SharedClearAll /\ SharedFrame
    \/ SharedTick /\ SharedFrame

(* ====================================================================== *)
(*                 DatabaseService  (src/db/database.ts)                  *)
(* ====================================================================== *)

\* bounds on the tables, and on the clock while the store is exercised
MaxMessages == 2
MaxArtifacts == 1
MaxStoreTicks == 1

SessionIds == {"s1", "s2"}
Roles == {"user", "assistant", "system"}
Statuses == {"active", "completed", "error"}

\* The rows of a table that belong to a session, in table order.
RECURSIVE RowsOf(_, _)
RowsOf(table, sessionId) ==
    IF table = <<>> THEN <<>>
    ELSE IF Head(table).session_id = sessionId
         THEN <<Head(table)>> \o RowsOf(Tail(table), sessionId)
         ELSE RowsOf(Tail(table), sessionId)

IndexPermutations(n) == {f \in [1..n -> 1..n] : \A i, j \in 1..n : i # j => f[i] # f[j]}

\* ORDER BY timestamp ASC: the rows in non-decreasing timestamp order.  SQL
\* leaves the order of rows with equal sort keys to the query plan, so
\* every such arrangement is a possible result.
OrderByTimestamp(rows) ==
    {[i \in 1..Len(rows) |-> rows[f[i]]] : f \in
        {g \in IndexPermutations(Len(rows)) :
            \A i, j \in 1..Len(rows) :
                i < j => rows[g[i]].timestamp <= rows[g[j]].timestamp}}

\* createSession, lines 96-113: the INSERT throws on an id that exists
\* (PRIMARY KEY) and then changes nothing.
createSession(id, query) ==
    [throws |-> id \in DOMAIN sessions,
     sessions |-> IF id \in DOMAIN sessions THEN sessions
                  ELSE [s \in DOMAIN sessions \cup {id} |->
                          IF s = id
                          THEN [id |-> id, created_at |-> now, updated_at |-> now,
                                status |-> "active", query |-> query]
                          ELSE sessions[s]]]

\* getSession, lines 115-118: stmt.get(id) returns the row, or undefined when
\* no row matches; it does not throw.
getSession(id) ==
    [throws |-> FALSE,
     row |-> IF id \in DOMAIN sessions THEN sessions[id] ELSE Undefined]

\* A buggy update: whatever status is asked for, completed is stored.
updateSessionStatusCompleted(id, status) ==
    IF id \in DOMAIN sessions
    THEN [sessions EXCEPT ![id].status = "completed", ![id].updated_at = now]
    ELSE sessions

\* The session rows in every order a sort on created_at may give them:
\* newestFirst for DESC, otherwise ASC; rows of equal created_at in any
\* order.
SessionsSorted(newestFirst) ==
    LET ids == DOMAIN sessions
        n == Cardinality(ids)
    IN  {[i \in 1..n |-> sessions[f[i]]] :
            f \in {g \in [1..n -> ids] :
                      /\ \A i, j \in 1..n : i # j => g[i] # g[j]
                      /\ \A i, j \in 1..n :
                            i < j => IF newestFirst
                                     THEN sessions[g[i]].created_at >= sessions[g[j]].created_at
                                     ELSE sessions[g[i]].created_at <= sessions[g[j]].created_at}}

\* LIMIT ?: the first rows, limit of them at most; SQLite takes a negative
\* limit as no limit.
Limit(rows, limit) ==
    IF limit < 0 \/ limit >= Len(rows) THEN rows ELSE SubSeq(rows, 1, limit)

\* A buggy query: ORDER BY created_at ASC.
getAllSessionsOldestFirst(limit) == {Limit(rows, limit) : rows \in SessionsSorted(FALSE)}

\* getAllSessions, lines 120-127: SELECT * FROM sessions ORDER BY created_at
\* DESC LIMIT ?.  Every result the query may give.
getAllSessions(limit) == {Limit(rows, limit) : rows \in SessionsSorted(TRUE)}

\* updateSessionStatus, lines 129-136: an UPDATE ... WHERE id = ?; no row
\* matches an unknown id and nothing changes.
updateSessionStatus(id, status) ==
    [s \in DOMAIN sessions |->
        IF s = id THEN [sessions[s] EXCEPT !.status = status, !.updated_at = now]
        ELSE sessions[s]]

\* The rows of a table that do not belong to a session, in table order.
RowsNotOf(table, sessionId) == SelectSeq(table, LAMBDA row : row.session_id # sessionId)

\* A buggy delete: the messages and artifacts of every session go.
deleteSessionEverything(id) ==
    [sessions |-> [s \in DOMAIN sessions \ {id} |-> sessions[s]],
     messages |-> <<>>,
     artifacts |-> <<>>]

\* A buggy delete: the session row goes, its messages and artifacts stay.
deleteSessionNoCascade(id) ==
    [sessions |-> [s \in DOMAIN sessions \ {id} |-> sessions[s]],
     messages |-> messages,
     artifacts |-> artifacts]

\* deleteSession, lines 138-141: DELETE FROM sessions WHERE id = ?; the
\* session's messages and artifacts go with it (ON DELETE CASCADE, lines 69
\* and 81).  An unknown id matches no row; nothing throws.
deleteSession(id) ==
    [sessions |-> [s \in DOMAIN sessions \ {id} |-> sessions[s]],
     messages |-> IF id \in DOMAIN sessions THEN RowsNotOf(messages, id) ELSE messages,
     artifacts |-> IF id \in DOMAIN sessions THEN RowsNotOf(artifacts, id) ELSE artifacts]

\* A buggy append: the row is stored whether or not its session exists.
addMessageUnchecked(sessionId, role, content) ==
    [throws |-> FALSE,
     messages |-> Append(messages, [id |-> <<"msg", now, Len(messages) + 1>>,
                                    session_id |-> sessionId, role |-> role,
                                    content |-> content, timestamp |-> now])]

\* addMessage, lines 144-160.  The id is `msg_${Date.now()}_${random}`, the
\* random part taken to be fresh; the INSERT throws when session_id names no
\* session (FOREIGN KEY, enforced by better-sqlite3).
addMessage(sessionId, role, content) ==
    LET message == [id |-> <<"msg", now, Len(messages) + 1>>, session_id |-> sessionId,
                    role |-> role, content |-> content, timestamp |-> now]
    IN  [throws |-> sessionId \notin DOMAIN sessions,
         messages |-> IF sessionId \in DOMAIN sessions THEN Append(messages, message)
                      ELSE messages]

\* getSessionMessages, lines 162-169: stmt.all returns the matching rows, none
\* for a session that does not exist; it does not throw.
getSessionMessages(sessionId) == OrderByTimestamp(RowsOf(messages, sessionId))

\* A buggy append: the row is not stored.
addResearchArtifactLost(sessionId, data, source) ==
    [throws |-> sessionId \notin DOMAIN sessions, artifacts |-> artifacts]

\* addResearchArtifact, lines 172-188.
addResearchArtifact(sessionId, data, source) ==
    LET artifact == [id |-> <<"artifact", now, Len(artifacts) + 1>>, session_id |-> sessionId,
                     data_json |-> <<"json", data>>, source |-> source, timestamp |-> now]
    IN  [throws |-> sessionId \notin DOMAIN sessions,
         artifacts |-> IF sessionId \in DOMAIN sessions THEN Append(artifacts, artifact)
                       ELSE artifacts]

\* getSessionArtifacts, lines 190-197.
getSessionArtifacts(sessionId) == OrderByTimestamp(RowsOf(artifacts, sessionId))

NoRead == [op |-> "none"]

InitStoreVars ==
    /\ sessions = <<>>
    /\ messages = <<>>
    /\ artifacts = <<>>
    /\ lastRead = NoRead

CreateSession(id) ==
    /\ sessions' = createSession(id, "q").sessions
    /\ lastRead' = NoRead
    /\ UNCHANGED <<now, messages, artifacts>>

UpdateSessionStatus(id, status) ==
    /\ sessions' = updateSessionStatus(id, status)
    /\ lastRead' = NoRead
    /\ UNCHANGED <<now, messages, artifacts>>

AddMessage(sessionId, role) ==
    /\ Len(messages) < MaxMessages
    /\ messages' = addMessage(sessionId, role, "text").messages
    /\ lastRead' = NoRead
    /\ UNCHANGED <<now, sessions, artifacts>>

AddResearchArtifact(sessionId) ==
    /\ Len(artifacts) < MaxArtifacts
    /\ artifacts' = addResearchArtifact(sessionId, "p1", "url").artifacts
    /\ lastRead' = NoRead
    /\ UNCHANGED <<now, sessions, messages>>

\* A read records what it returned; every write forgets the record, so a
\* recorded read is always a read of the tables as they are.
GetSessionMessages(sessionId) ==
    /\ \E rows \in getSessionMessages(sessionId) :
          lastRead' = [op |-> "messages", session |-> sessionId, rows |-> rows,
                       throws |-> FALSE]
    /\ UNCHANGED <<now, sessions, messages, artifacts>>

GetSessionArtifacts(sessionId) ==
    /\ \E rows \in getSessionArtifacts(sessionId) :
          lastRead' = [op |-> "artifacts", session |-> sessionId, rows |-> rows,
                       throws |-> FALSE]
    /\ UNCHANGED <<now, sessions, messages, artifacts>>

GetSession(sessionId) ==
    /\ lastRead' = [op |-> "session", session |-> sessionId,
                    row |-> getSession(sessionId).row,
                    throws |-> getSession(sessionId).throws]
    /\ UNCHANGED <<now, sessions, messages, artifacts>>

\* A buggy schema set-up: the tables are made anew.
initializeSchemaAnew(table) == <<>>

\* initializeSchema, lines 50-92: CREATE TABLE IF NOT EXISTS and CREATE
\* INDEX IF NOT EXISTS leave a table that exists, and its rows, as they are.
initializeSchema(table) == table

\* The process ends (a crash, an exit) and a new one constructs the
\* DatabaseService, lines 33-47, on the same file.  Every write ran as its
\* own statement and was committed to the file and its write-ahead log when
\* stmt.run returned, so the new process finds the tables as they were;
\* what the old process held in memory is gone.
Reopen ==
    /\ sessions' = initializeSchema(sessions)
    /\ messages' = initializeSchema(messages)
    /\ artifacts' = initializeSchema(artifacts)
    /\ lastRead' = NoRead
    /\ UNCHANGED now

\* line 120: limit defaults to 50, more than the sessions of the model.
DefaultLimit == 50
SessionLimits == {0, 1, 2, DefaultLimit}

GetAllSessions(limit) ==
    /\ \E rows \in getAllSessions(limit) :
          lastRead' = [op |-> "allSessions", limit |-> limit, rows |-> rows, throws |-> FALSE]
    /\ UNCHANGED <<now, sessions, messages, artifacts>>

DeleteSession(id) ==
    /\ sessions' = deleteSession(id).sessions
    /\ messages' = deleteSession(id).messages
    /\ artifacts' = deleteSession(id).artifacts
    /\ lastRead' = NoRead
    /\ UNCHANGED now

StoreTick ==
    /\ now < MaxStoreTicks * TickMs
    /\ now' = now + TickMs
    /\ UNCHANGED storeVars

\* Date.now() is the wall clock: an adjustment of the system time (NTP, the
\* user) sets it back.
ClockSetBack ==
    /\ now > 0
    /\ now' = now - TickMs
    /\ UNCHANGED storeVars

(* ====================================================================== *)
(*            ReflectorLoop  (spec.md 4.4 - 4.8 and 5; no source file)    *)
(* ====================================================================== *)

\* bounds: the largest step and cost caps a session is started with
MaxStepsLimit == 3
MaxCostLimit == 4

\* 4.5: "retried up to a bounded attempt count"
MaxAttempts == 2
\* 4.7: "recurs beyond a fixed threshold"
LoopThreshold == 1
\* 5: "a bounded worker pool"
PoolSize == 2

\* The session the loop runs for.
LoopSession == "s1"

\* Digests of (capability, canonicalized arguments), and the tasks of a Plan.
Digests == {"d1", "d2"}
TaskIds == {1, 2}

\* The estimated cost of one dispatch, in cents.
StepCosts == {1, 2}

\* 4.4: a Plan is a non-empty collection of Tasks, every one pending; a
\* task's dependencies are tasks declared before it.
Plans ==
    {p \in UNION {[ids -> [digest : Digests, deps : SUBSET TaskIds, status : {"pending"}]] :
                    ids \in {{1}, {1, 2}}} :
        \A t \in DOMAIN p : \A d \in p[t].deps : d \in DOMAIN p /\ d < t}

\* A buggy wave rule: every pending task is dispatched, whatever it depends on.
ReadyTasksAnyPending(p) == {t \in DOMAIN p : p[t].status = "pending"}

\* Tasks with no unmet dependency: those a wave may dispatch together.
ReadyTasks(p) ==
    {t \in DOMAIN p : p[t].status = "pending"
                      /\ \A d \in p[t].deps : p[d].status = "satisfied"}

Settled(phase) == phase \in {"succeeded", "permanent", "exhausted"}

\* The failures the calls of the model run into: a timeout, another
\* transient failure and a permanent one.
Failures == {"timeout", "rate limit", "malformed arguments"}

\* A buggy classification: a timeout counts as permanent.
ClassifyTimeoutPermanent(kind) ==
    IF kind \in {"network error", "rate limit"} THEN "transient" ELSE "permanent"

\* 4.5: failures are transient (network error, timeout, rate limit) or
\* permanent (UnsupportedCapability, malformed arguments).
Classify(kind) ==
    IF kind \in {"network error", "timeout", "rate limit"} THEN "transient" ELSE "permanent"

\* 4.7 Budget enforcement: a cap is exceeded once the amount used reaches it.
BudgetsExceeded == stepsUsed >= maxSteps \/ costUsedUSD >= maxCostUSD

\* A buggy loop detector: it never trips.
LoopDetectedNever == FALSE

\* 4.7 Loop detection: some digest recurred beyond the threshold without
\* producing a new Satisfied artifact.
LoopDetected == \E d \in Digests : digestAttempts[d] > LoopThreshold

\* Artifacts persisted for the session so far.
UsableArtifacts == Len(RowsOf(artifacts, LoopSession))

SomeUnsatisfied == \E t \in DOMAIN plan : plan[t].status \in {"insufficient", "failed"}
AllSatisfied == \A t \in DOMAIN plan : plan[t].status = "satisfied"

\* What leaves the loop variables alone.
LoopFrame ==
    UNCHANGED <<now, cacheVars, lastRead, providerVars, sharedVars, other, resumes,
                registryVars, lastWrite, selectorVars>>

\* Loop start (4.7 "Initial state: Planning"): the session exists, the
\* user's query is its first message, nothing is spent.
InitLoop ==
    /\ now = 0
    /\ options = NoOptions /\ ttl = DefaultTTL /\ files = <<>> /\ dirs = ExistingDirs /\ lastSet = NoCall /\ lastGet = NoCall
    /\ sessions = [s \in {LoopSession} |->
                      [id |-> s, created_at |-> 0, updated_at |-> 0,
                       status |-> "active", query |-> "q"]]
    /\ messages = << [id |-> <<"msg", 0, 1>>, session_id |-> LoopSession, role |-> "user",
                      content |-> "q", timestamp |-> 0] >>
    /\ artifacts = <<>>
    /\ lastRead = NoRead
    /\ InitProviderIdle
    /\ InitRegistryIdle
    /\ InitSharedIdle
    /\ loopState = "Planning"
    /\ plan = <<>>
    /\ exec = <<>>
    /\ maxSteps \in 1..MaxStepsLimit
    /\ maxCostUSD \in {MaxCostLimit - 2, MaxCostLimit}
    /\ stepsUsed = 0
    /\ costUsedUSD = 0
    /\ digestAttempts = [d \in Digests |-> 0]
    /\ stalled = FALSE
    /\ cancelRequested = FALSE
    /\ cancelObserved = FALSE
    /\ dispatches = 0
    /\ waves = 0
    /\ other = "off"
    /\ resumes = 0

\* 4.7 Planning -> Executing: the Planner's Plan has >= 1 pending Task and
\* budgets are not exceeded.  The wave is the set of its ready tasks.
PlanningToExecuting(newPlan) ==
    /\ loopState = "Planning"
    /\ ~BudgetsExceeded
    /\ ReadyTasks(newPlan) # {}
    /\ plan' = newPlan
    /\ exec' = [t \in ReadyTasks(newPlan) |->
                  [phase |-> "waiting", attempts |-> 0, failure |-> "none"]]
    /\ loopState' = "Executing"
    /\ waves' = waves + 1
    /\ UNCHANGED <<maxSteps, maxCostUSD, stepsUsed, costUsedUSD, digestAttempts, stalled,
                   cancelRequested, cancelObserved, dispatches>>
    /\ UNCHANGED <<sessions, messages, artifacts>>
    /\ LoopFrame

\* 4.4 Planner failure: reported, not retried; the loop is Aborted with zero
\* tasks.  4.8: the status becomes error if there is no usable artifact.
PlannerFails ==
    /\ loopState = "Planning"
    /\ plan' = <<>>
    /\ exec' = <<>>
    /\ loopState' = "Aborted"
    /\ sessions' = IF UsableArtifacts = 0 THEN updateSessionStatus(LoopSession, "error")
                   ELSE sessions
    /\ UNCHANGED <<maxSteps, maxCostUSD, stepsUsed, costUsedUSD, digestAttempts, stalled,
                   cancelRequested, cancelObserved, dispatches, waves>>
    /\ UNCHANGED <<messages, artifacts>>
    /\ LoopFrame

\* 4.5 / 4.7 / 5: the Executor is invoked for a task of the wave as soon as a
\* worker-pool slot is free.  stepsUsed increments once per dispatch,
\* costUsedUSD accumulates the estimated cost, the loop detector records the
\* digest.
Dispatch(t, cost) ==
    /\ loopState = "Executing"
    /\ t \in DOMAIN exec /\ exec[t].phase = "waiting"
    /\ Cardinality({u \in DOMAIN exec : exec[u].phase = "calling"}) < PoolSize
    /\ exec' = [exec EXCEPT ![t] = [phase |-> "calling", attempts |-> 1, failure |-> "none"]]
    /\ plan' = [plan EXCEPT ![t].status = "in-progress"]
    /\ stepsUsed' = stepsUsed + 1
    /\ costUsedUSD' = costUsedUSD + cost
    /\ digestAttempts' = [digestAttempts EXCEPT ![plan[t].digest] = @ + 1]
    /\ dispatches' = dispatches + 1
    /\ UNCHANGED <<loopState, maxSteps, maxCostUSD, stalled, cancelRequested, cancelObserved,
                   waves>>
    /\ UNCHANGED <<sessions, messages, artifacts>>
    /\ LoopFrame

\* 4.5: on success the Executor appends a ResearchArtifact.
CallSucceeds(t) ==
    /\ loopState = "Executing"
    /\ t \in DOMAIN exec /\ exec[t].phase = "calling"
    /\ exec' = [exec EXCEPT ![t].phase = "succeeded"]
    /\ artifacts' = addResearchArtifact(LoopSession, "p1", "url").artifacts
    /\ UNCHANGED <<loopState, plan, maxSteps, maxCostUSD, stepsUsed, costUsedUSD,
                   digestAttempts, stalled, cancelRequested, cancelObserved, dispatches, waves>>
    /\ UNCHANGED <<sessions, messages>>
    /\ LoopFrame

\* 4.5: a transient failure is retried, after a backoff, up to MaxAttempts
\* attempts; then the task settles as failed.
CallFailsTransient(t, kind) ==
    /\ loopState = "Executing"
    /\ t \in DOMAIN exec /\ exec[t].phase = "calling"
    /\ Classify(kind) = "transient"
    /\ exec' = [exec EXCEPT ![t].phase =
                                IF exec[t].attempts < MaxAttempts THEN "backoff" ELSE "exhausted",
                            ![t].failure = kind]
    /\ UNCHANGED <<loopState, plan, maxSteps, maxCostUSD, stepsUsed, costUsedUSD,
                   digestAttempts, stalled, cancelRequested, cancelObserved, dispatches, waves>>
    /\ UNCHANGED <<sessions, messages, artifacts>>
    /\ LoopFrame

\* 5: the backoff sleep holds no worker-pool slot; the retry takes one again.
RetryAfterBackoff(t) ==
    /\ loopState = "Executing"
    /\ t \in DOMAIN exec /\ exec[t].phase = "backoff"
    /\ Cardinality({u \in DOMAIN exec : exec[u].phase = "calling"}) < PoolSize
    /\ exec' = [exec EXCEPT ![t] = [phase |-> "calling", attempts |-> exec[t].attempts + 1,
                                    failure |-> "none"]]
    /\ UNCHANGED <<loopState, plan, maxSteps, maxCostUSD, stepsUsed, costUsedUSD,
                   digestAttempts, stalled, cancelRequested, cancelObserved, dispatches, waves>>
    /\ UNCHANGED <<sessions, messages, artifacts>>
    /\ LoopFrame

\* 4.5: a permanent failure is never retried.
CallFailsPermanent(t, kind) ==
    /\ loopState = "Executing"
    /\ t \in DOMAIN exec /\ exec[t].phase = "calling"
    /\ Classify(kind) = "permanent"
    /\ exec' = [exec EXCEPT ![t].phase = "permanent", ![t].failure = kind]
    /\ UNCHANGED <<loopState, plan, maxSteps, maxCostUSD, stepsUsed, costUsedUSD,
                   digestAttempts, stalled, cancelRequested, cancelObserved, dispatches, waves>>
    /\ UNCHANGED <<sessions, messages, artifacts>>
    /\ LoopFrame

\* A buggy barrier: Validating starts as soon as one task has settled.
WaveSettledAny == \E t \in DOMAIN exec : Settled(exec[t].phase)

\* 4.7 Executing -> Validating: all dispatched Tasks of the wave have settled.
WaveSettled == \A t \in DOMAIN exec : Settled(exec[t].phase)

ExecutingToValidating ==
    /\ loopState = "Executing"
    /\ WaveSettled
    /\ loopState' = "Validating"
    /\ UNCHANGED <<plan, exec, maxSteps, maxCostUSD, stepsUsed, costUsedUSD,
                   digestAttempts, stalled, cancelRequested, cancelObserved, dispatches, waves>>
    /\ UNCHANGED <<sessions, messages, artifacts>>
    /\ LoopFrame

\* 4.6 / 7: the verdict of a task whose call succeeded is the Validator's
\* (Satisfied, InsufficientData or Error); a task whose call failed counts
\* as a Validator Error.
Verdicts ==
    {v \in [DOMAIN exec -> {"satisfied", "insufficient", "failed"}] :
        \A t \in DOMAIN exec : exec[t].phase # "succeeded" => v[t] = "failed"}

\* 4.7 Validating -> Reflecting: always, carrying the per-task verdicts.  A
\* Satisfied verdict clears the loop detector's count of the task's digest.
ValidatingToReflecting(verdict) ==
    /\ loopState = "Validating"
    /\ plan' = [t \in DOMAIN plan |->
                  IF t \in DOMAIN exec THEN [plan[t] EXCEPT !.status = verdict[t]]
                  ELSE plan[t]]
    /\ digestAttempts' = [d \in Digests |->
                            IF \E t \in DOMAIN exec :
                                  plan[t].digest = d /\ verdict[t] = "satisfied"
                            THEN 0 ELSE digestAttempts[d]]
    /\ loopState' = "Reflecting"
    /\ UNCHANGED <<exec, maxSteps, maxCostUSD, stepsUsed, costUsedUSD,
                   stalled, cancelRequested, cancelObserved, dispatches, waves>>
    /\ UNCHANGED <<sessions, messages, artifacts>>
    /\ LoopFrame

\* A buggy guard: re-planning ignores the budgets.
MayReplanUnbudgeted == SomeUnsatisfied /\ ~LoopDetected /\ ~cancelRequested

\* 4.7 Reflecting -> Planning: at least one task Insufficient/failed and
\* budgets allow another wave and the loop detector has not tripped; 5: no
\* new task is scheduled once a cancellation is observed at the boundary.
MayReplan == SomeUnsatisfied /\ ~BudgetsExceeded /\ ~LoopDetected /\ ~cancelRequested

ReflectingToPlanning ==
    /\ loopState = "Reflecting"
    /\ MayReplan
    /\ loopState' = "Planning"
    /\ UNCHANGED <<plan, exec, maxSteps, maxCostUSD, stepsUsed, costUsedUSD,
                   digestAttempts, stalled, cancelRequested, cancelObserved, dispatches, waves>>
    /\ UNCHANGED <<sessions, messages, artifacts>>
    /\ LoopFrame

\* 4.7 Reflecting -> Synthesizing: all tasks Satisfied, or budgets exceeded,
\* or loop detector tripped (with the stalled flag), or a cancellation signal
\* was observed.
ReflectingToSynthesizing ==
    /\ loopState = "Reflecting"
    /\ AllSatisfied \/ BudgetsExceeded \/ LoopDetected \/ cancelRequested
    /\ loopState' = "Synthesizing"
    /\ stalled' = LoopDetected
    /\ cancelObserved' = cancelRequested
    /\ UNCHANGED <<plan, exec, maxSteps, maxCostUSD, stepsUsed, costUsedUSD,
                   digestAttempts, cancelRequested, dispatches, waves>>
    /\ UNCHANGED <<sessions, messages, artifacts>>
    /\ LoopFrame

\* 4.7 Reflecting -> Aborted: a permanent Executor failure leaves zero usable
\* artifacts.  4.8: the status becomes error.
ReflectingToAborted ==
    /\ loopState = "Reflecting"
    /\ \E t \in DOMAIN exec : exec[t].phase = "permanent"
    /\ UsableArtifacts = 0
    /\ loopState' = "Aborted"
    /\ sessions' = updateSessionStatus(LoopSession, "error")
    /\ UNCHANGED <<plan, exec, maxSteps, maxCostUSD, stepsUsed, costUsedUSD,
                   digestAttempts, stalled, cancelRequested, cancelObserved, dispatches, waves>>
    /\ UNCHANGED <<messages, artifacts>>
    /\ LoopFrame

\* 4.8: synthesize(history, artifacts, stalled) -> finalAnswer, then
\* updateStatus(session, completed).
Synthesize ==
    /\ loopState = "Synthesizing"
    /\ messages' = addMessage(LoopSession, "assistant", "finalAnswer").messages
    /\ sessions' = updateSessionStatus(LoopSession, "completed")
    /\ loopState' = "Done"
    /\ UNCHANGED <<plan, exec, maxSteps, maxCostUSD, stepsUsed, costUsedUSD,
                   digestAttempts, stalled, cancelRequested, cancelObserved, dispatches, waves>>
    /\ UNCHANGED artifacts
    /\ LoopFrame

\* 5: the user interrupts a running loop.
Interrupt ==
    /\ loopState \notin {"Done", "Aborted"}
    /\ ~cancelRequested
    /\ cancelRequested' = TRUE
    /\ UNCHANGED <<loopState, plan, exec, maxSteps, maxCostUSD, stepsUsed, costUsedUSD,
                   digestAttempts, stalled, cancelObserved, dispatches, waves>>
    /\ UNCHANGED <<sessions, messages, artifacts>>
    /\ LoopFrame

NextLoop ==
    \/ \E newPlan \in Plans : PlanningToExecuting(newPlan)
    \/ PlannerFails
    \/ \E t \in TaskIds, cost \in StepCosts : Dispatch(t, cost)
    \/ \E t \in TaskIds : CallSucceeds(t)
    \/ \E t \in TaskIds, kind \in Failures : CallFailsTransient(t, kind)
    \/ \E t \in TaskIds : RetryAfterBackoff(t)
    \/ \E t \in TaskIds, kind \in Failures : CallFailsPermanent(t, kind)
    \/ ExecutingToValidating
    \/ \E verdict \in Verdicts : ValidatingToReflecting(verdict)
    \/ ReflectingToPlanning
    \/ ReflectingToSynthesizing
    \/ ReflectingToAborted
    \/ Synthesize
    \/ Interrupt

SpecLoop == InitLoop /\ [][NextLoop]_vars

\* 4.4: a re-plan produces a new Plan version and never mutates a dispatched
\* Task: the new version may keep Satisfied tasks of the current one as they
\* are, next to pending tasks, which may depend on them.
PlanVersions ==
    Plans \cup
    {p \in UNION {[ids -> [digest : Digests, deps : SUBSET TaskIds,
                           status : {"pending", "satisfied"}]] : ids \in {{1}, {1, 2}}} :
        /\ \A t \in DOMAIN p : \A d \in p[t].deps : d \in DOMAIN p /\ d < t
        /\ \A t \in DOMAIN p :
              p[t].status = "satisfied"
                 => /\ t \in DOMAIN plan /\ plan[t] = p[t]
                    /\ \A d \in p[t].deps : p[d].status = "satisfied"}

\* The loop with Plan versions that keep what is done, one transient and
\* one permanent kind of failure, and dispatches of one cost.
NextWaves ==
    \/ loopState = "Planning" /\ \E newPlan \in PlanVersions : PlanningToExecuting(newPlan)
    \/ PlannerFails
    \/ \E t \in TaskIds : Dispatch(t, 1)
    \/ \E t \in TaskIds : CallSucceeds(t)
    \/ \E t \in TaskIds : CallFailsTransient(t, "timeout")
    \/ \E t \in TaskIds : RetryAfterBackoff(t)
    \/ \E t \in TaskIds : CallFailsPermanent(t, "malformed arguments")
    \/ ExecutingToValidating
    \/ \E verdict \in Verdicts : ValidatingToReflecting(verdict)
    \/ ReflectingToPlanning
    \/ ReflectingToSynthesizing
    \/ ReflectingToAborted
    \/ Synthesize
    \/ Interrupt

SpecWaves == InitLoop /\ [][NextWaves]_vars

(* ====================================================================== *)
(*    stopping and resuming a session  (src/index.tsx; spec.md 4.7, 6)    *)
(* ====================================================================== *)

\* bounds: how often the session is resumed, and how many messages it holds
MaxResumes == 1
MaxLoopMessages == 2

\* index.tsx:11-20  the value following the first '--resume' or '-r' of the
\* command line; undefined without the flag or when the flag comes last.
resumeSessionId(args) ==
    LET flags == {i \in 1..Len(args) : args[i] \in {"--resume", "-r"}}
    IN  IF flags = {} THEN Undefined
        ELSE LET i == CHOOSE j \in flags : \A k \in flags : j <= k
             IN  IF i + 1 <= Len(args) THEN args[i + 1] ELSE Undefined

\* Command lines.
Argvs == {<<>>, <<"--resume", "s1">>, <<"-r", "s1">>, <<"-r", "s2">>, <<"--resume">>}

\* 4.7: the states of a loop that has not stopped.
ActiveStates == {"Planning", "Executing", "Validating", "Reflecting", "Synthesizing"}

ResumeFrame ==
    UNCHANGED <<now, cacheVars, lastRead, providerVars, sharedVars, registryVars, lastWrite, selectorVars>>

\* The process of the loop ends before the loop is Done or Aborted: the user
\* interrupts it or it is killed.  What it held in memory is gone (the
\* Budget shown is the session's as it was last); the session's rows stay,
\* its status still active.
ProcessExit ==
    /\ loopState \in ActiveStates
    /\ loopState' = "Stopped"
    /\ plan' = <<>>
    /\ exec' = <<>>
    /\ digestAttempts' = [d \in Digests |-> 0]
    /\ stalled' = FALSE
    /\ cancelRequested' = FALSE
    /\ cancelObserved' = FALSE
    /\ dispatches' = 0
    /\ waves' = 0
    /\ UNCHANGED <<maxSteps, maxCostUSD, stepsUsed, costUsedUSD, other, resumes>>
    /\ UNCHANGED <<sessions, messages, artifacts>>
    /\ ResumeFrame

\* 6 Resume flag: the Budget replayed from the persisted rows.  A row is
\* persisted per completed attempt only (4.5), so a step is counted per
\* ResearchArtifact and the cost of each is estimated again.
ReplayBudgets ==
    LET n == UsableArtifacts
    IN  [stepsUsed : {n}, costUsedUSD : {c \in 0..MaxCostLimit + 2 :
                                           \E e \in StepCosts : c = n * e}]

\* index.tsx:23 with a resume flag naming the stopped session; 4.7: the loop
\* starts in Planning, seeded with the persisted history.
Resume(args, budget) ==
    /\ loopState = "Stopped"
    /\ resumes < MaxResumes
    /\ resumeSessionId(args) = LoopSession
    /\ LoopSession \in DOMAIN sessions
    /\ budget \in ReplayBudgets
    /\ loopState' = "Planning"
    /\ stepsUsed' = budget.stepsUsed
    /\ costUsedUSD' = budget.costUsedUSD
    /\ resumes' = resumes + 1
    /\ UNCHANGED <<plan, exec, maxSteps, maxCostUSD, digestAttempts, stalled,
                   cancelRequested, cancelObserved, dispatches, waves, other>>
    /\ UNCHANGED <<sessions, messages, artifacts>>
    /\ ResumeFrame

\* index.tsx:11-23 in a second process: whatever session the resume flag
\* names is handed to the CLI; nothing is looked up or locked before the
\* loop is started on it.
LaunchOther(args) ==
    /\ other = "off"
    /\ other' = IF resumeSessionId(args) = LoopSession THEN "running" ELSE "off"
    /\ UNCHANGED <<loopState, plan, exec, maxSteps, maxCostUSD, stepsUsed, costUsedUSD,
                   digestAttempts, stalled, cancelRequested, cancelObserved, dispatches,
                   waves, resumes>>
    /\ UNCHANGED <<sessions, messages, artifacts>>
    /\ ResumeFrame

\* database.ts:144-160  the second process's loop appends to the session.
OtherAppends ==
    /\ other = "running"
    /\ Len(messages) < MaxLoopMessages
    /\ messages' = addMessage(LoopSession, "assistant", "other").messages
    /\ UNCHANGED <<loopState, plan, exec, maxSteps, maxCostUSD, stepsUsed, costUsedUSD,
                   digestAttempts, stalled, cancelRequested, cancelObserved, dispatches,
                   waves, other, resumes>>
    /\ UNCHANGED <<sessions, artifacts>>
    /\ ResumeFrame

OtherExits ==
    /\ other = "running"
    /\ other' = "off"
    /\ UNCHANGED <<loopState, plan, exec, maxSteps, maxCostUSD, stepsUsed, costUsedUSD,
                   digestAttempts, stalled, cancelRequested, cancelObserved, dispatches,
                   waves, resumes>>
    /\ UNCHANGED <<sessions, messages, artifacts>>
    /\ ResumeFrame

\* A session started with the caps that allow a second wave and no more.
InitResume ==
    /\ InitLoop
    /\ maxSteps = MaxStepsLimit - 1
    /\ maxCostUSD = MaxCostLimit - 2

NextResume ==
    \/ NextLoop
    \/ ProcessExit
    \/ \E args \in Argvs : \E budget \in ReplayBudgets : Resume(args, budget)
    \/ \E args \in Argvs : LaunchOther(args)
    \/ OtherAppends
    \/ OtherExits

SpecResume == InitResume /\ [][NextResume]_vars

(* ====================================================================== *)
(*   provider registry  (src/providers/yahoo-finance-provider.ts 221-255,  *)
(*   the interface of src/unnamed/part_001 73-101; dispatch: spec.md 4.3)  *)
(* ====================================================================== *)

\* part_001:82-100  the operations of IFinancialProvider; the last five are
\* optional ('?').
RequiredMethods ==
    {"getIncomeStatements", "getBalanceSheets", "getCashFlowStatements",
     "getAllFinancialStatements", "getPriceSnapshot", "getPriceHistory", "getFinancialMetrics"}
OptionalMethods ==
    {"getNews", "getAnalystEstimates", "getInsiderTrades", "getFilings", "getSegmentedRevenues"}
Capabilities == RequiredMethods \cup OptionalMethods

\* yahoo-finance-provider.ts:15-219  the methods the class defines.
YahooFinanceProviderMethods == RequiredMethods \cup {"getNews"}

\* financial-datasets-provider.ts:111-211  the methods the class defines.
FinancialDatasetsProviderMethods == RequiredMethods \cup OptionalMethods

MethodsOf(name) ==
    IF name = "Yahoo Finance" THEN YahooFinanceProviderMethods
    ELSE IF name = "FinancialDatasets" THEN FinancialDatasetsProviderMethods
    ELSE {}

\* String.prototype.toLowerCase on the provider types of the model.
toLowerCase(str) ==
    IF str \in {"Yahoo", "YAHOO"} THEN "yahoo"
    ELSE IF str = "Yahoo-Finance" THEN "yahoo-finance"
    ELSE IF str = "FinancialDatasets" THEN "financialdatasets"
    ELSE str

\* Provider types given as argument or in FINANCIAL_PROVIDER; "" and
\* undefined are falsy.
ProviderTypes ==
    {Undefined, "", "yahoo", "Yahoo", "yahoo-finance", "Yahoo-Finance", "financialdatasets",
     "FinancialDatasets", "financial-datasets", "alphavantage"}

\* A buggy factory: the type is compared as written, without toLowerCase.
createFinancialProviderCaseSensitive(providerType, env) ==
    LET type == IF providerType \notin {Undefined, ""} THEN providerType
                ELSE IF env \notin {Undefined, ""} THEN env
                ELSE "financialdatasets"
    IN  IF type \in {"yahoo", "yahoo-finance"} THEN "Yahoo Finance"
        ELSE "FinancialDatasets"

\* createFinancialProvider, yahoo-finance-provider.ts:233-248: the name of
\* the provider it returns.
createFinancialProvider(providerType, env) ==
    LET type == IF providerType \notin {Undefined, ""} THEN providerType
                ELSE IF env \notin {Undefined, ""} THEN env
                ELSE "financialdatasets"
    IN  IF toLowerCase(type) \in {"yahoo", "yahoo-finance"} THEN "Yahoo Finance"
        ELSE "FinancialDatasets"

\* A buggy capability check: every capability counts as supported.
SupportsEverything(name, capability) == TRUE

\* 4.3: the capability descriptor of a provider, computed at registration.
Supports(name, capability) == capability \in MethodsOf(name)

\* provider[capability](params): calling a method the object does not have
\* is a TypeError.
invoke(name, capability) ==
    IF capability \in MethodsOf(name) THEN "called" ELSE "TypeError"

RegistryFrame ==
    UNCHANGED <<now, cacheVars, storeVars, loopVars, providerVars, sharedVars, lastWrite, selectorVars>>

\* The provider is chosen (at start or by the provider switch of 6).
CreateProvider(providerType, env) ==
    /\ provider' = createFinancialProvider(providerType, env)
    /\ call' = NoDispatch
    /\ RegistryFrame

\* 4.3 / 4.5: a capability is dispatched.  An unsupported one fails with
\* UnsupportedCapability without the provider being invoked.
RegistryDispatch(capability) ==
    /\ provider # "none"
    /\ call.phase \notin {"calling", "backoff"}
    /\ call' = IF Supports(provider, capability)
               THEN [capability |-> capability, phase |-> "calling", attempts |-> 1,
                     failure |-> "none"]
               ELSE [capability |-> capability, phase |-> Classify("UnsupportedCapability"),
                     attempts |-> 1, failure |-> "UnsupportedCapability"]
    /\ UNCHANGED provider
    /\ RegistryFrame

\* The invoked method returns {data, source}; invoking a method the
\* provider does not define crashes instead.
RegistryCallReturns ==
    /\ call.phase = "calling"
    /\ call' = [call EXCEPT !.phase = IF invoke(provider, call.capability) = "called"
                                      THEN "succeeded" ELSE "crashed"]
    /\ UNCHANGED provider
    /\ RegistryFrame

\* The invoked method throws (yahoo-finance-provider.ts:46-48 and alike,
\* financial-datasets-provider.ts:82-84); 4.5 classifies the failure.
RegistryCallFails(kind) ==
    /\ call.phase = "calling"
    /\ invoke(provider, call.capability) = "called"
    /\ call' = [call EXCEPT !.failure = kind,
                            !.phase = IF Classify(kind) = "permanent" THEN "permanent"
                                      ELSE IF call.attempts < MaxAttempts THEN "backoff"
                                      ELSE "exhausted"]
    /\ UNCHANGED provider
    /\ RegistryFrame

\* 4.5: a transient failure is retried after its backoff.
RegistryRetry ==
    /\ call.phase = "backoff"
    /\ call' = [call EXCEPT !.phase = "calling", !.attempts = @ + 1, !.failure = "none"]
    /\ UNCHANGED provider
    /\ RegistryFrame

(* ====================================================================== *)
(*                          specifications                                *)
(* ====================================================================== *)

\* No loop runs while the cache or the store is exercised on its own.
InitLoopIdle ==
    /\ loopState = "Idle"
    /\ plan = <<>>
    /\ exec = <<>>
    /\ maxSteps = 0
    /\ maxCostUSD = 0
    /\ stepsUsed = 0
    /\ costUsedUSD = 0
    /\ digestAttempts = <<>>
    /\ stalled = FALSE
    /\ cancelRequested = FALSE
    /\ cancelObserved = FALSE
    /\ dispatches = 0
    /\ waves = 0
    /\ other = "off"
    /\ resumes = 0

InitCache ==
    /\ now = 0
    /\ InitCacheVars
    /\ InitStoreVars
    /\ InitProviderIdle
    /\ InitRegistryIdle
    /\ InitSharedIdle
    /\ InitLoopIdle

NextCache ==
    \/ \E prefix \in Prefixes, params \in ParamObjects, data \in Payloads, writeOk \in BOOLEAN :
          CacheSet(prefix, params, data, writeOk) /\ CacheFrame
    \/ \E prefix \in Prefixes, params \in ParamObjects, f \in GetFaults :
          CacheGet(prefix, params, f.readOk, f.unlinkOk, f.unlinkAgainOk)
          /\ CacheFrame
    \/ \E path \in AllPaths, text \in ForeignTexts :
          ForeignWrite(path, text) /\ CacheFrame
    \/ CacheTick /\ CacheFrame

SpecCache == InitCache /\ [][NextCache]_vars

\* The cache constructed with no ttl, or with a ttl of 0, of half the
\* default or of the default.
ConfiguredTtls == {0, DefaultTTL \div 2, DefaultTTL}

InitTtl ==
    /\ now = 0
    /\ options \in {NoOptions} \cup {TtlOption(T) : T \in ConfiguredTtls}
    /\ ttl = CacheServiceTtl(options)
    /\ files = <<>>
    /\ dirs = ExistingDirs
    /\ lastSet = NoCall
    /\ lastGet = NoCall
    /\ InitStoreVars
    /\ InitProviderIdle
    /\ InitRegistryIdle
    /\ InitSharedIdle
    /\ InitLoopIdle

NextTtl ==
    \/ \E params \in ParamObjects, data \in Payloads :
          CacheSet(<<"prices">>, params, data, TRUE) /\ CacheFrame
    \/ \E params \in ParamObjects :
          CacheGet(<<"prices">>, params, TRUE, TRUE, TRUE) /\ CacheFrame
    \/ CacheTick /\ CacheFrame

SpecTtl == InitTtl /\ [][NextTtl]_vars

\* The cache filled under several keys.  The argument objects:
\* {ticker, limit} in both insertion orders, and with a limit that is the
\* string '5', undefined, NaN or null.  Every set stores a payload that
\* names the prefix and the key/value pairs it is stored under.
IntegrityParams ==
    { << <<"limit", NumVal("5")>>, <<"ticker", StrVal("AAPL")>> >> }
    \cup { << <<"ticker", StrVal("AAPL")>>, <<"limit", l>> >> :
              l \in {NumVal("5"), StrVal("5"), UndefVal, NumVal("NaN"), NullVal} }

ArgSet(params) == {params[i] : i \in 1..Len(params)}

Origins == {<<prefix, ArgSet(params)>> : prefix \in Prefixes, params \in IntegrityParams}

OriginNames == <<"v1", "v2", "v3", "v4", "v5", "v6", "v7", "v8", "v9", "v10">>

RECURSIVE Rank(_, _)
Rank(o, S) ==
    LET x == CHOOSE y \in S : TRUE
    IN  IF x = o THEN 1 ELSE 1 + Rank(o, S \ {x})

OriginName(prefix, params) == OriginNames[Rank(<<prefix, ArgSet(params)>>, Origins)]

InitIntegrity ==
    /\ now = 0
    /\ options = NoOptions
    /\ ttl = CacheServiceTtl(options)
    /\ files = <<>>
    /\ dirs = ExistingDirs \cup {<<"financialdatasets_", "prices">>}
    /\ lastSet = NoCall
    /\ lastGet = NoCall
    /\ InitStoreVars
    /\ InitProviderIdle
    /\ InitRegistryIdle
    /\ InitSharedIdle
    /\ InitLoopIdle

NextIntegrity ==
    \/ \E prefix \in Prefixes, params \in IntegrityParams :
          CacheSet(prefix, params, OriginName(prefix, params), TRUE) /\ CacheFrame
    \/ \E prefix \in Prefixes, params \in IntegrityParams :
          CacheGet(prefix, params, TRUE, TRUE, TRUE) /\ CacheFrame

SpecIntegrity == InitIntegrity /\ [][NextIntegrity]_vars

\* The cache with its purge operations.  The directory
\* cacheDir/financialdatasets_/prices may have been made by the user.
InitPurge ==
    /\ now = 0
    /\ options = TtlOption(DefaultTTL \div 2)
    /\ ttl = CacheServiceTtl(options)
    /\ files = <<>>
    /\ dirs \in {ExistingDirs, ExistingDirs \cup {<<"financialdatasets_", "prices">>}}
    /\ lastSet = NoCall
    /\ lastGet = NoCall
    /\ InitStoreVars
    /\ InitProviderIdle
    /\ InitRegistryIdle
    /\ InitSharedIdle
    /\ InitLoopIdle

\* The cache files another program writes directly in cacheDir.
ListedPaths == {path \in AllPaths : path.dir = <<>>}

NextPurge ==
    \/ \E prefix \in Prefixes, params \in ParamObjects :
          CacheSet(prefix, params, "p1", TRUE) /\ CacheFrame
    \/ \E path \in ListedPaths, text \in ForeignTexts :
          ForeignWrite(path, text) /\ CacheFrame
    \/ \E f \in GetFaults :
          CacheClearExpired(f.readOk, f.unlinkOk, f.unlinkAgainOk) /\ CacheFrame
    \/ \E unlinkOk \in BOOLEAN : CacheClearAll(unlinkOk) /\ CacheFrame
    \/ CacheTick /\ CacheFrame

SpecPurge == InitPurge /\ [][NextPurge]_vars

InitStore ==
    /\ now = 0
    /\ options = NoOptions /\ ttl = DefaultTTL /\ files = <<>> /\ dirs = ExistingDirs /\ lastSet = NoCall /\ lastGet = NoCall
    /\ InitStoreVars
    /\ InitProviderIdle
    /\ InitRegistryIdle
    /\ InitSharedIdle
    /\ InitLoopIdle

NextStore ==
    \/ \E id \in SessionIds : CreateSession(id) /\ StoreFrame
    \/ \E status \in Statuses : UpdateSessionStatus("s1", status) /\ StoreFrame
    \/ \E id \in SessionIds, role \in {"user", "assistant"} :
          AddMessage(id, role) /\ StoreFrame
    \/ \E id \in SessionIds : AddResearchArtifact(id) /\ StoreFrame
    \/ \E id \in SessionIds : GetSessionMessages(id) /\ StoreFrame
    \/ \E id \in SessionIds : GetSessionArtifacts(id) /\ StoreFrame
    \/ \E id \in SessionIds : GetSession(id) /\ StoreFrame
    \/ StoreTick /\ StoreFrame
    \/ ClockSetBack /\ StoreFrame

SpecStore == InitStore /\ [][NextStore]_vars

\* The provider on its own, DISABLE_CACHE not set.
InitProviderOnly ==
    /\ InitProvider
    /\ providerArgs.DISABLE_CACHE = Undefined
    /\ InitRegistryIdle
    /\ InitStoreVars
    /\ InitSharedIdle
    /\ InitLoopIdle

SpecProvider == InitProviderOnly /\ [][NextProvider]_vars

\* The provider over a cache that earlier runs have filled: entries under
\* the provider's key, holding a response of the upstream API, are written
\* by set when the directory exists.
OptOutCalls ==
    {c \in ProviderCalls : (c.method = "getPriceHistory") = (c.params[1][2] = StrVal("AAPL"))}

NextOptOut ==
    \/ \E c \in OptOutCalls, f \in GetFaults :
          ProviderCall(c, f, TRUE) /\ ProviderFrame
    \/ CacheSet(cacheKeyOf(PricesEndpoint), getPriceHistoryParams("AAPL", NumVal("5")),
                ResultOf(UrlOf(PricesEndpoint, getPriceHistoryParams("AAPL", UndefVal))), TRUE)
          /\ UNCHANGED <<providerVars>> /\ ProviderFrame
    \/ ProviderTick /\ ProviderFrame

\* The provider with a network that may fail: every call either reaches
\* the upstream API or throws a network error.
FetchFaults ==
    [readOk : {TRUE}, unlinkOk : BOOLEAN, unlinkAgainOk : {TRUE}, fetchOk : BOOLEAN]

NextFetch ==
    \/ \E c \in OptOutCalls, f \in FetchFaults :
          ProviderCall(c, f, TRUE) /\ ProviderFrame
    \/ ProviderTick /\ ProviderFrame

InitOptOut ==
    /\ InitProvider
    /\ <<"financialdatasets_", "prices">> \in dirs
    /\ InitRegistryIdle
    /\ InitStoreVars
    /\ InitSharedIdle
    /\ InitLoopIdle

SpecOptOut == InitOptOut /\ [][NextOptOut]_vars

SpecFetch == InitOptOut /\ [][NextFetch]_vars

InitSharedOnly ==
    /\ InitShared
    /\ InitRegistryIdle
    /\ InitStoreVars
    /\ InitProviderIdle
    /\ InitLoopIdle

SpecShared == InitSharedOnly /\ [][NextShared]_vars

\* The store with what each write told its caller.  A read forgets the
\* record of the last write, so a recorded write is the step just taken.
Written(op, id, throws) == lastWrite' = [op |-> op, session |-> id, throws |-> throws]

WritesFrame == UNCHANGED <<cacheVars, loopVars, providerVars, sharedVars, registryVars, selectorVars>>

NextWrites ==
    \/ \E id \in SessionIds :
          /\ CreateSession(id)
          /\ Written("createSession", id, createSession(id, "q").throws)
          /\ WritesFrame
    \/ \E id \in SessionIds, status \in {"completed", "error"} :
          /\ UpdateSessionStatus(id, status)
          /\ Written("updateSessionStatus", id, FALSE)
          /\ WritesFrame
    \/ \E id \in SessionIds :
          /\ AddMessage(id, "user")
          /\ Written("addMessage", id, addMessage(id, "user", "text").throws)
          /\ WritesFrame
    \/ \E id \in SessionIds :
          /\ AddResearchArtifact(id)
          /\ Written("addResearchArtifact", id, addResearchArtifact(id, "p1", "url").throws)
          /\ WritesFrame
    \/ \E id \in SessionIds :
          /\ DeleteSession(id)
          /\ Written("deleteSession", id, FALSE)
          /\ WritesFrame
    \/ Reopen /\ Written("reopen", "none", FALSE) /\ WritesFrame
    \/ \E id \in SessionIds : GetSessionMessages(id) /\ lastWrite' = NoCall /\ WritesFrame
    \/ \E id \in SessionIds : GetSessionArtifacts(id) /\ lastWrite' = NoCall /\ WritesFrame
    \/ \E id \in SessionIds : GetSession(id) /\ lastWrite' = NoCall /\ WritesFrame

SpecWrites == InitStore /\ [][NextWrites]_vars

\* The sessions table on its own: sessions are created, updated, deleted and
\* listed while the clock moves.
NextSessions ==
    \/ \E id \in SessionIds : CreateSession(id) /\ StoreFrame
    \/ \E id \in SessionIds, status \in Statuses : UpdateSessionStatus(id, status) /\ StoreFrame
    \/ \E id \in SessionIds : DeleteSession(id) /\ StoreFrame
    \/ \E limit \in SessionLimits : GetAllSessions(limit) /\ StoreFrame
    \/ StoreTick /\ StoreFrame
    \/ ClockSetBack /\ StoreFrame

SpecSessions == InitStore /\ [][NextSessions]_vars

InitRegistry ==
    /\ now = 0
    /\ options = NoOptions /\ ttl = DefaultTTL /\ files = <<>> /\ dirs = ExistingDirs /\ lastSet = NoCall /\ lastGet = NoCall
    /\ InitStoreVars
    /\ InitProviderIdle
    /\ InitRegistryIdle
    /\ InitSharedIdle
    /\ InitLoopIdle

NextRegistry ==
    \/ \E providerType \in ProviderTypes, env \in {Undefined, "yahoo"} :
          CreateProvider(providerType, env)
    \/ \E capability \in Capabilities : RegistryDispatch(capability)
    \/ RegistryCallReturns
    \/ \E kind \in Failures : RegistryCallFails(kind)
    \/ RegistryRetry

SpecRegistry == InitRegistry /\ [][NextRegistry]_vars

(* ====================================================================== *)
(*                     properties of the ReflectorLoop                    *)
(* ====================================================================== *)

\* C1 (Budget cap): the number of Executor dispatches of one loop execution
\* never exceeds maxSteps, also when several independent tasks of one wave
\* are dispatched together.
C1_BudgetCap == dispatches <= maxSteps

\* The Planner has emitted tasks of one digest only, and no Satisfied
\* verdict has been given: every dispatch so far still counts against that
\* digest in the loop detector.
SameDigestNoProgress ==
    /\ plan # <<>>
    /\ \E d \in Digests :
          /\ digestAttempts[d] = dispatches
          /\ \A t \in DOMAIN plan : plan[t].digest = d /\ plan[t].status # "satisfied"

C3_ExactlyMaxSteps ==
    (/\ loopState = "Synthesizing"
     /\ ~AllSatisfied
     /\ ~stalled
     /\ ~cancelRequested
     /\ costUsedUSD < maxCostUSD)
        => dispatches = maxSteps

\* C4 (Budget guard on re-planning) as stated: from Reflecting with a budget
\* at or beyond its cap, or with the loop detector tripped, the next state
\* is Synthesizing.
C4_ForcedSynthesizing ==
    [][(/\ loopState = "Reflecting"
        /\ \/ stepsUsed >= maxSteps
           \/ costUsedUSD >= maxCostUSD
           \/ \E d \in Digests : digestAttempts[d] > LoopThreshold)
          => loopState' \in {"Reflecting", "Synthesizing"}]_vars

\* C4 (Budget guard on re-planning), amended: from Reflecting with a budget
\* at or beyond its cap, or with the loop detector tripped, the next state
\* is Synthesizing, or Aborted when a permanent failure has left zero usable
\* artifacts, and never Planning; Reflecting -> Planning is taken only when
\* both budgets allow another wave and the detector has not tripped.
C4_NoReplanBeyondBudget ==
    [][loopState = "Reflecting" =>
          LET beyond == \/ stepsUsed >= maxSteps
                        \/ costUsedUSD >= maxCostUSD
                        \/ \E d \in Digests : digestAttempts[d] > LoopThreshold
          IN  /\ beyond => loopState' \in {"Reflecting", "Synthesizing", "Aborted"}
              /\ (beyond /\ loopState' = "Aborted") =>
                    /\ \E t \in DOMAIN exec : exec[t].phase = "permanent"
                    /\ Len(RowsOf(artifacts, LoopSession)) = 0
              /\ loopState' = "Planning" => ~beyond]_vars

\* C4 witness: the loop is Synthesizing with a task still unsatisfied, the
\* step budget spent and the detector not tripped: the budget forced it.
C4_Witness ==
    /\ loopState = "Synthesizing"
    /\ \E t \in DOMAIN plan : plan[t].status \in {"insufficient", "failed"}
    /\ stepsUsed >= maxSteps
    /\ ~stalled
    /\ ~cancelRequested

\* C5 (Wave barrier): whenever the loop is Validating, every task of the
\* current wave has succeeded, failed permanently or exhausted its retries.
C5_WaveBarrier ==
    loopState = "Validating" =>
        \A t \in DOMAIN exec : exec[t].phase \in {"succeeded", "permanent", "exhausted"}

\* C5 witness: Validating after a wave of two tasks, one of which was
\* retried after a backoff while the other had already settled.
C5_Witness ==
    /\ loopState = "Validating"
    /\ Cardinality(DOMAIN exec) = 2
    /\ \E t, u \in DOMAIN exec :
          /\ exec[t].attempts = MaxAttempts
          /\ exec[u].attempts = 1
          /\ exec[u].phase = "succeeded"

\* C6 (Cancellation): when the loop that observed a user interrupt has
\* stopped, the session's status is still active.
C6_CancelledStaysActive ==
    (cancelObserved /\ loopState \in {"Done", "Aborted"})
        => sessions[LoopSession].status = "active"

\* C19 (Retry classification) as stated, its second part: a task whose call
\* has failed permanently was attempted exactly once.
C19_PermanentOnce ==
    \A t \in DOMAIN exec : exec[t].phase = "permanent" => exec[t].attempts = 1

\* C19 (Retry classification), amended: while a wave executes, a task is
\* attempted again only after the backoff of a transient failure (network
\* error, timeout, rate limit) and never more than MaxAttempts times, after
\* which the transient failure settles it as failed; a permanent failure
\* (UnsupportedCapability, malformed arguments) settles the task at once
\* and it is never attempted again, so a task whose first call fails
\* permanently is attempted exactly once, while one whose retry fails
\* permanently was attempted more often; a timeout never settles a task as
\* permanently failed.
C19_RetryClassification ==
    [][loopState = "Executing" =>
          \A t \in DOMAIN exec \cap DOMAIN exec' :
             LET before == exec[t]
                 after == exec'[t]
                 transient == {"network error", "timeout", "rate limit"}
                 permanent == {"UnsupportedCapability", "malformed arguments"}
             IN  /\ after.attempts \in {before.attempts, before.attempts + 1}
                 /\ after.attempts <= MaxAttempts
                 /\ after.attempts > before.attempts =>
                       /\ before.phase \in {"waiting", "backoff"}
                       /\ before.phase = "backoff" => before.failure \in transient
                 /\ before.phase = "permanent" => after = before
                 /\ before.phase = "exhausted" => after = before
                 /\ after.phase = "permanent" =>
                       /\ after.failure \in permanent
                       /\ after.attempts = before.attempts
                       /\ before.phase \in {"calling", "permanent"}
                 /\ after.phase = "backoff" =>
                       after.failure \in transient /\ after.attempts < MaxAttempts
                 /\ after.phase = "exhausted" =>
                       after.failure \in transient /\ after.attempts = MaxAttempts
                 /\ after.failure = "timeout" => after.phase \in {"backoff", "exhausted"}]_vars

\* C19 witness: the wave has settled with one task that failed permanently
\* at its first call and one that timed out MaxAttempts times.
C19_Witness ==
    /\ loopState = "Validating"
    /\ \E t, u \in DOMAIN exec :
          /\ exec[t].phase = "permanent" /\ exec[t].attempts = 1
          /\ exec[u].phase = "exhausted" /\ exec[u].attempts = MaxAttempts
          /\ exec[u].failure = "timeout"

\* C20 (Artifacts match successful attempts): every step of a loop execution
\* appends exactly one ResearchArtifact of the session for each Executor
\* attempt that completes successfully in it and none otherwise (a
\* transient or permanent failure appends nothing, no stored artifact is
\* changed or removed), so that the number of persisted artifacts always
\* equals the number of successful attempts; in particular it is never
\* below the number of tasks of the current wave that have succeeded.
C20_ArtifactsMatchSuccesses ==
    [][LET completed == {t \in DOMAIN exec \cap DOMAIN exec' :
                            exec[t].phase # "succeeded" /\ exec'[t].phase = "succeeded"}
           succeeded == {t \in DOMAIN exec' : exec'[t].phase = "succeeded"}
           count == Len(RowsOf(artifacts, LoopSession))
       IN  /\ Len(RowsOf(artifacts', LoopSession)) = count + Cardinality(completed)
           /\ Len(artifacts') = Len(artifacts) + Cardinality(completed)
           /\ SubSeq(artifacts', 1, Len(artifacts)) = artifacts
           /\ Len(RowsOf(artifacts', LoopSession)) >= Cardinality(succeeded)]_vars

\* C20 witness: a wave of two tasks has settled, one attempt succeeded after
\* a transient failure, the other task failed permanently, and one artifact
\* is persisted.
C20_Witness ==
    /\ loopState = "Validating"
    /\ waves = 1
    /\ \E t, u \in DOMAIN exec :
          /\ exec[t].phase = "succeeded" /\ exec[t].attempts = 2
          /\ exec[u].phase = "permanent"
    /\ Len(RowsOf(artifacts, LoopSession)) = 1

\* C21 (Unsupported capability): a capability the selected provider does
\* not implement (for the Yahoo provider: analyst estimates, insider
\* trades, filings, segment revenue, and none of the others) is settled by
\* the dispatch as an UnsupportedCapability failure, no call ever crashes,
\* and the failed capability is not attempted a second time.
C21_UnsupportedCapability ==
    [][LET yahooLacks == {"getAnalystEstimates", "getInsiderTrades", "getFilings",
                          "getSegmentedRevenues"}
           unsupported == provider = "Yahoo Finance" /\ call.capability \in yahooLacks
           unsupportedNext == provider' = "Yahoo Finance" /\ call'.capability \in yahooLacks
       IN  /\ call'.phase # "crashed"
           /\ unsupportedNext =>
                 /\ call'.failure = "UnsupportedCapability"
                 /\ call'.phase = "permanent"
                 /\ call'.attempts = 1
           /\ call'.failure = "UnsupportedCapability" => unsupportedNext
           /\ (unsupported /\ call.failure = "UnsupportedCapability") =>
                 \/ call'.phase \in {"idle", "permanent"} /\ call'.attempts <= 1
                 \/ call'.attempts = 1 /\ ~unsupportedNext]_vars

\* C21 witness: the Yahoo provider was asked for insider trades and the
\* dispatch has failed with UnsupportedCapability.
C21_Witness ==
    /\ provider = "Yahoo Finance"
    /\ call.capability = "getInsiderTrades"
    /\ call.failure = "UnsupportedCapability"
    /\ call.phase = "permanent"

\* C22 (Final session status): in every state of a loop execution the
\* session's status is completed exactly when the loop is Done, having gone
\* through Synthesizing and appended its final answer; it is error only
\* when the loop is Aborted and no artifact is persisted; it is active
\* otherwise; and from Done or Aborted no step dispatches a task or changes
\* the status.
C22_FinalStatus ==
    [][LET status == sessions'[LoopSession].status
           answered == \E i \in 1..Len(messages') :
                          /\ messages'[i].session_id = LoopSession
                          /\ messages'[i].role = "assistant"
                          /\ messages'[i].content = "finalAnswer"
       IN  /\ status = "completed" <=> loopState' = "Done"
           /\ status = "completed" => answered
           /\ (status = "completed" /\ sessions[LoopSession].status # "completed") =>
                 loopState = "Synthesizing"
           /\ status = "error" =>
                 loopState' = "Aborted" /\ Len(RowsOf(artifacts', LoopSession)) = 0
           /\ status \in {"active", "completed", "error"}
           /\ loopState \in {"Done", "Aborted"} =>
                 /\ dispatches' = dispatches
                 /\ sessions' = sessions
                 /\ loopState' = loopState]_vars

\* C22 witnesses: a loop that is Done with its final answer stored and the
\* session completed after a wave that left a task unsatisfied.
C22_Witness ==
    /\ loopState = "Done"
    /\ sessions[LoopSession].status = "completed"
    /\ Len(messages) = 2
    /\ \E t \in DOMAIN plan : plan[t].status = "failed"
    /\ dispatches >= 1

\* C17 (Single writer per session): at no time is the ReflectorLoop of a
\* second process running on a session whose own loop has not stopped,
\* also when the second process is started with the resume flag.
C17_SingleWriter == ~(loopState \in ActiveStates /\ other = "running")

\* C18 (Budget monotonicity across resume): no step of the session's life,
\* the resume after an interruption included, makes stepsUsed or
\* costUsedUSD smaller.
C18_BudgetMonotonic ==
    [][stepsUsed' >= stepsUsed /\ costUsedUSD' >= costUsedUSD]_vars

\* C29 (Dependency order): a task is dispatched only when every task of its
\* dependency set has completed (is Satisfied), and the tasks of one wave
\* are tasks without an unmet dependency: in every state, each task of the
\* wave being executed, and each task that has been dispatched, has all its
\* dependencies Satisfied.
C29_DependencyOrder ==
    /\ loopState = "Executing" =>
          \A t \in DOMAIN exec : \A d \in plan[t].deps : plan[d].status = "satisfied"
    /\ \A t \in DOMAIN plan :
          plan[t].status # "pending" => \A d \in plan[t].deps : plan[d].status = "satisfied"

\* C29 witness: a task with a dependency is being called, its dependency
\* having completed in an earlier wave.
C29_Witness ==
    /\ loopState = "Executing"
    /\ \E t \in DOMAIN exec :
          /\ exec[t].phase = "calling"
          /\ plan[t].deps # {}
          /\ \A d \in plan[t].deps : plan[d].status = "satisfied" /\ d \notin DOMAIN exec
    /\ waves > 1

\* The transitions 4.7 lists out of each state (with the Planner failure of
\* 4.4 and the Synthesizer step of 4.8), the calls of a wave included.
PlanningProceeds == \E newPlan \in Plans : PlanningToExecuting(newPlan)

ExecutingProceeds ==
    \/ \E t \in TaskIds, cost \in StepCosts : Dispatch(t, cost)
    \/ \E t \in TaskIds : CallSucceeds(t)
    \/ \E t \in TaskIds, kind \in Failures : CallFailsTransient(t, kind)
    \/ \E t \in TaskIds : RetryAfterBackoff(t)
    \/ \E t \in TaskIds, kind \in Failures : CallFailsPermanent(t, kind)
    \/ ExecutingToValidating

ReflectingProceeds == ReflectingToPlanning \/ ReflectingToSynthesizing \/ ReflectingToAborted

\* C30 (No stuck state): in every reachable non-terminal state of the loop a
\* listed transition is enabled: in Planning the loop goes on whether the
\* Planner fails or forms a Plan, also with a budget already exhausted; in
\* Executing, Validating, Reflecting and Synthesizing some transition out
\* of the state, or some step of the wave, can be taken.
C30_NoStuckState ==
    /\ loopState = "Planning" => (ENABLED PlannerFails /\ ENABLED PlanningProceeds)
    /\ loopState = "Executing" => ENABLED ExecutingProceeds
    /\ loopState = "Validating" => ENABLED (\E verdict \in Verdicts : ValidatingToReflecting(verdict))
    /\ loopState = "Reflecting" => ENABLED ReflectingProceeds
    /\ loopState = "Synthesizing" => ENABLED Synthesize

(* ====================================================================== *)
(*                     properties of the session store                    *)
(* ====================================================================== *)

\* C7 (Resume fidelity): loading the Messages or ResearchArtifacts of a
\* session returns its records in the order in which they were appended.
C7_ResumeFidelity ==
    /\ lastRead.op = "messages" => lastRead.rows = RowsOf(messages, lastRead.session)
    /\ lastRead.op = "artifacts" => lastRead.rows = RowsOf(artifacts, lastRead.session)

\* C14 (Unknown session on read): a read of a session identifier that was
\* never created fails instead of returning a result.
C14_UnknownSessionFails ==
    (lastRead.op \in {"session", "messages", "artifacts"}
     /\ lastRead.session \notin DOMAIN sessions)
        => lastRead.throws

\* C15 (Message order): getSessionMessages returns the messages of a
\* session in non-decreasing timestamp order, and messages of equal
\* timestamp in the order in which addMessage inserted them (the third
\* part of a message id is its position in the table).
C15_MessageOrder ==
    lastRead.op = "messages" =>
        \A i, j \in 1..Len(lastRead.rows) :
            i < j =>
                /\ lastRead.rows[i].timestamp <= lastRead.rows[j].timestamp
                /\ lastRead.rows[i].timestamp = lastRead.rows[j].timestamp
                      => lastRead.rows[i].id[3] < lastRead.rows[j].id[3]

\* The records of a session in both tables.
RecordsOf(sessionId) == RowsOf(messages, sessionId) \o RowsOf(artifacts, sessionId)

\* C16 (Append-only, monotonic history): no store operation modifies or
\* removes a stored Message or ResearchArtifact, and a record appended to a
\* session has a timestamp greater than or equal to that of every record
\* the session already has.
C16_AppendOnlyMonotonic ==
    [][/\ Len(messages') >= Len(messages)
       /\ Len(artifacts') >= Len(artifacts)
       /\ SubSeq(messages', 1, Len(messages)) = messages
       /\ SubSeq(artifacts', 1, Len(artifacts)) = artifacts
       /\ \A n \in (Len(messages) + 1)..Len(messages') :
             \A i \in 1..Len(RecordsOf(messages'[n].session_id)) :
                RecordsOf(messages'[n].session_id)[i].timestamp <= messages'[n].timestamp
       /\ \A n \in (Len(artifacts) + 1)..Len(artifacts') :
             \A i \in 1..Len(RecordsOf(artifacts'[n].session_id)) :
                RecordsOf(artifacts'[n].session_id)[i].timestamp <= artifacts'[n].timestamp]_vars

\* C23 (Write failures are propagated): a write that the store rejects
\* (addMessage or addResearchArtifact for a session id that does not exist,
\* createSession with an id that exists) raises to its caller, and a write
\* that raises leaves sessions, messages and artifacts as they were; a
\* write that does not raise has stored its row (updateSessionStatus and
\* deleteSession never raise: an unknown id matches no row).
C23_WriteFailuresPropagate ==
    [][lastWrite'.op # "none" =>
          LET w == lastWrite'
              known == w.session \in DOMAIN sessions
          IN  /\ w.throws =>
                    sessions' = sessions /\ messages' = messages /\ artifacts' = artifacts
              /\ w.op \in {"addMessage", "addResearchArtifact"} => (w.throws <=> ~known)
              /\ w.op = "createSession" => (w.throws <=> known)
              /\ w.op \in {"updateSessionStatus", "deleteSession"} => ~w.throws
              /\ (w.op = "addMessage" /\ ~w.throws) =>
                    /\ Len(messages') = Len(messages) + 1
                    /\ messages'[Len(messages')].session_id = w.session
              /\ (w.op = "addResearchArtifact" /\ ~w.throws) =>
                    /\ Len(artifacts') = Len(artifacts) + 1
                    /\ artifacts'[Len(artifacts')].session_id = w.session
              /\ (w.op = "createSession" /\ ~w.throws) =>
                    w.session \in DOMAIN sessions']_vars

\* C23 witness: an addMessage for a session that does not exist has raised
\* while another session holds a message.
C23_Witness ==
    /\ lastWrite.op = "addMessage"
    /\ lastWrite.throws
    /\ lastWrite.session \notin DOMAIN sessions
    /\ Len(messages) >= 1

\* The same rows, in whatever order.
SameRows(rows, table) ==
    /\ Len(rows) = Len(table)
    /\ \E g \in IndexPermutations(Len(table)) : \A i \in 1..Len(table) : rows[g[i]] = table[i]

\* C24 (Durable writes): a write that has returned is in the tables; ending
\* the process right after it and constructing the store again on the same
\* file leaves every session, message and artifact as it was; and every
\* read returns all the rows the tables hold for its session.
C24_DurableWrites ==
    [][/\ lastWrite'.op = "reopen" =>
             sessions' = sessions /\ messages' = messages /\ artifacts' = artifacts
       /\ (lastWrite'.op = "addMessage" /\ ~lastWrite'.throws) =>
             messages' = Append(messages, messages'[Len(messages')])
       /\ (lastWrite'.op = "addResearchArtifact" /\ ~lastWrite'.throws) =>
             artifacts' = Append(artifacts, artifacts'[Len(artifacts')])
       /\ (lastWrite'.op = "createSession" /\ ~lastWrite'.throws) =>
             lastWrite'.session \in DOMAIN sessions'
       /\ (lastWrite'.op = "updateSessionStatus" /\ lastWrite'.session \in DOMAIN sessions) =>
             sessions'[lastWrite'.session].status \in {"completed", "error"}
       /\ lastRead'.op = "messages" =>
             SameRows(lastRead'.rows, RowsOf(messages', lastRead'.session))
       /\ lastRead'.op = "artifacts" =>
             SameRows(lastRead'.rows, RowsOf(artifacts', lastRead'.session))
       /\ (lastRead'.op = "session" /\ lastRead'.session \in DOMAIN sessions') =>
             lastRead'.row = sessions'[lastRead'.session]]_vars

\* C24 witness: the store was constructed again after a session, a message
\* and an artifact had been written, and they are there.
C24_Witness ==
    /\ lastWrite.op = "reopen"
    /\ "s1" \in DOMAIN sessions
    /\ Len(RowsOf(messages, "s1")) >= 1
    /\ Len(RowsOf(artifacts, "s1")) >= 1

\* C25 (Session isolation): a write addressed to session A (createSession,
\* addMessage, addResearchArtifact, updateSessionStatus, deleteSession,
\* whether or not it raises) leaves the session row, the messages and the
\* artifacts of every other session B as they were, and a read of B
\* returns only rows whose session_id is B.
C25_SessionIsolation ==
    [][/\ \A B \in SessionIds :
             (/\ lastWrite'.op \in {"createSession", "addMessage", "addResearchArtifact",
                                     "updateSessionStatus", "deleteSession"}
              /\ lastWrite'.session # B) =>
                 /\ B \in DOMAIN sessions' <=> B \in DOMAIN sessions
                 /\ B \in DOMAIN sessions => sessions'[B] = sessions[B]
                 /\ RowsOf(messages', B) = RowsOf(messages, B)
                 /\ RowsOf(artifacts', B) = RowsOf(artifacts, B)
       /\ lastRead'.op \in {"messages", "artifacts"} =>
             \A i \in 1..Len(lastRead'.rows) :
                lastRead'.rows[i].session_id = lastRead'.session
       /\ (lastRead'.op = "session" /\ lastRead'.session \in DOMAIN sessions') =>
             lastRead'.row.id = lastRead'.session]_vars

\* C25 witness: session s1 was deleted together with the message stored
\* before that of s2, and s2 still has its row and its message.
C25_Witness ==
    /\ lastWrite.op = "deleteSession"
    /\ lastWrite.session = "s1"
    /\ "s1" \notin DOMAIN sessions
    /\ "s2" \in DOMAIN sessions
    /\ Len(messages) = 1
    /\ messages[1].session_id = "s2"
    /\ messages[1].id[3] = 2

\* C26 (Recent sessions): for a limit that is a count (0 or more),
\* getAllSessions(limit) returns limit sessions, or all of them when there
\* are fewer; each is a stored session and none comes twice; no session
\* left out has a later created_at than one returned; and the result runs
\* from the latest created_at to the earliest.
C26_RecentSessions ==
    lastRead.op = "allSessions" =>
        LET rows == lastRead.rows
            n == Cardinality(DOMAIN sessions)
            returned == {rows[i].id : i \in 1..Len(rows)}
        IN  /\ Len(rows) <= lastRead.limit
            /\ Len(rows) = IF lastRead.limit < n THEN lastRead.limit ELSE n
            /\ \A i \in 1..Len(rows) :
                  rows[i].id \in DOMAIN sessions /\ rows[i] = sessions[rows[i].id]
            /\ Cardinality(returned) = Len(rows)
            /\ \A i, j \in 1..Len(rows) : i < j => rows[i].created_at >= rows[j].created_at
            /\ \A s \in DOMAIN sessions \ returned :
                  \A i \in 1..Len(rows) : sessions[s].created_at <= rows[i].created_at

\* C26 witness: of two sessions created at different times, a limit of 1
\* has returned the later one only.
C26_Witness ==
    /\ lastRead.op = "allSessions"
    /\ lastRead.limit = 1
    /\ Cardinality(DOMAIN sessions) = 2
    /\ Len(lastRead.rows) = 1
    /\ \E s \in DOMAIN sessions : sessions[s].created_at < lastRead.rows[1].created_at

\* A file holds no usable entry at the time of a purge: it cannot be read
\* or parsed, or its entry is not within the TTL.
Purgeable(text, readOk) ==
    ~readOk \/ ParseThrows(text) \/ PropertyThrows(text) \/ ~EntryValid(text)

\* The step is a clearExpired call / a clearAll call on the files as they are.
IsClearExpired == lastGet'.op = "clearExpired" /\ lastGet'.before = files /\ lastGet'.at = now
IsClearAll == lastGet'.op = "clearAll" /\ lastGet'.before = files /\ lastGet'.at = now

C8_CacheRoundTrip ==
    (/\ lastGet.op = "get"
     /\ lastGet.afterSet
     /\ lastGet.elapsed < ttl
     /\ lastGet.readOk)
        => lastGet.ret = lastGet.stored

\* C9 (Cache expiry) as stated: a get that meets an entry whose age is at or
\* beyond the TTL returns absent and removes the entry from storage.
C9_ExpiredRemoved ==
    (lastGet.op = "get" /\ lastGet.met.found = "object" /\ lastGet.met.age >= ttl)
        => (lastGet.ret = Null /\ ~lastGet.holds)

\* C9 (Cache expiry), amended: a get that meets an entry whose age is at or
\* beyond the TTL returns absent, and removes the entry from storage unless
\* both attempts to delete the file fail.
C9_ExpiredAbsent ==
    (lastGet.op = "get" /\ lastGet.met.found = "object" /\ lastGet.met.age >= ttl)
        => /\ lastGet.ret = Null
           /\ lastGet.holds => (~lastGet.unlinkOk /\ ~lastGet.unlinkAgainOk)

\* C9 witness: a get met a complete entry exactly TTL old, reported it
\* absent and removed it.
C9_Witness ==
    /\ lastGet.op = "get"
    /\ lastGet.met.found = "object"
    /\ lastGet.met.entire
    /\ lastGet.met.age = ttl
    /\ lastGet.ret = Null
    /\ ~lastGet.holds

\* C10 (Cache errors are swallowed) as stated: set and get never raise; a
\* get that meets a missing, unreadable, unparseable or structurally wrong
\* file returns absent; a corrupt file met by get is deleted.
C10_ErrorsSwallowed ==
    /\ lastSet.op = "set" => ~lastSet.raised
    /\ lastGet.op = "get" =>
          LET corrupt == \/ lastGet.met.found \in {"unparseable", "null"}
                         \/ lastGet.met.found = "object" /\ ~lastGet.met.entire
          IN  /\ ~lastGet.raised
              /\ (corrupt \/ lastGet.met.found \in {"missing", "unreadable"})
                    => lastGet.ret = Null
              /\ corrupt => ~lastGet.holds

\* C10 (Cache errors are swallowed), amended: set and get never raise; a get
\* that meets a missing, unreadable or unparseable file, the text null, or
\* an object without a timestamp returns absent; such a file is deleted
\* unless the delete fails.  (An object with an unexpired timestamp is served
\* whatever else it lacks.)
C10_ErrorsAbsent ==
    /\ lastSet.op = "set" => ~lastSet.raised
    /\ lastGet.op = "get" =>
          LET corrupt == \/ lastGet.met.found \in {"unparseable", "null"}
                         \/ lastGet.met.found = "object" /\ lastGet.met.age = -1
          IN  /\ ~lastGet.raised
              /\ (corrupt \/ lastGet.met.found \in {"missing", "unreadable"})
                    => lastGet.ret = Null
              /\ (corrupt \/ lastGet.met.found = "unreadable")
                    => (lastGet.holds => ~lastGet.unlinkAgainOk)

\* C10 witness: a get met unparseable content, returned absent and deleted
\* the file.
C10_Witness ==
    /\ lastGet.op = "get"
    /\ lastGet.met.found = "unparseable"
    /\ lastGet.ret = Null
    /\ ~lastGet.raised
    /\ ~lastGet.holds

\* C13 (Cache under concurrent access): every get of a process, whatever
\* other processes do to the same key meanwhile, returns absent or the
\* payload one set wrote, and does not raise.
C13_ConcurrentGetWhole ==
    seen.op = "get" => (~seen.raised /\ seen.ret \in {Null} \cup {PayloadOf(w) : w \in Writers})

(* ====================================================================== *)
(*                      properties of the provider                        *)
(* ====================================================================== *)

C12_ReadThrough ==
    (/\ lastCall.op = "call"
     /\ enableCache
     /\ lastCall.stored
     /\ lastCall.readOk
     /\ lastCall.elapsed < ttl)
        => ~lastCall.fetched

\* The provider was constructed with the cache opted out of.
OptedOut == providerArgs.DISABLE_CACHE = "true" \/ ~providerArgs.enableCache

\* The file of the cache entry a provider call with these arguments uses.
CallPath(params) == getFilePath(generateKey(cacheKeyOf(PricesEndpoint), params))

C31_ConfiguredTtl ==
    (lastGet.op = "get" /\ lastGet.afterSet)
        => LET T == IF options.given THEN options.ttl ELSE DefaultTTL
           IN  (lastGet.ret = lastGet.stored) <=> (lastGet.elapsed < T)

\* The key/value pairs with every value as JSON.stringify renders it.
Rendered(params) == {<<params[i][1], JSONstringifyValue(params[i][2])>> : i \in 1..Len(params)}

\* The sets whose payload a get may return, by name.
StoredUnder(prefix, params, same(_, _)) ==
    {OriginName(prefix, q) : q \in {r \in IntegrityParams : same(r, params)}}

IsProviderCall == lastCall'.op = "call" /\ lastCall' # lastCall

ReferredSessions(table) == {table[i].session_id : i \in 1..Len(table)}

\* C34 (Referential integrity): after every step of the store each message
\* and each research artifact refers to a session row that exists; after a
\* deleteSession neither the session nor a message or artifact of it is
\* left; an append to a session that does not exist leaves both tables as
\* they were.
C34_ReferentialIntegrity ==
    [][/\ ReferredSessions(messages') \cup ReferredSessions(artifacts') \subseteq DOMAIN sessions'
       /\ lastWrite'.op = "deleteSession" =>
             /\ lastWrite'.session \notin DOMAIN sessions'
             /\ lastWrite'.session \notin
                   ReferredSessions(messages') \cup ReferredSessions(artifacts')
       /\ (/\ lastWrite'.op \in {"addMessage", "addResearchArtifact"}
           /\ lastWrite'.session \notin DOMAIN sessions)
             => messages' = messages /\ artifacts' = artifacts]_vars

\* C34 witness: a deleteSession removed a session with a message of its own
\* (a later message has moved up in the table) while the other session
\* keeps its message.
C34_Witness ==
    /\ lastWrite.op = "deleteSession"
    /\ lastWrite.session \notin DOMAIN sessions
    /\ sessions # <<>>
    /\ \E i \in 1..Len(messages) : messages[i].id[3] > i

(* ---------------------- the provider factory ------------------------- *)

\* The values of the argument and of FINANCIAL_PROVIDER the factory is
\* called with.
FactoryTypes == ProviderTypes \cup {"YAHOO"}

\* createFinancialProvider(providerType) is called while FINANCIAL_PROVIDER
\* is env; the call is recorded with its arguments.
CreateFinancialProvider(providerType, env) ==
    /\ provider' = createFinancialProvider(providerType, env)
    /\ lastCall' = [op |-> "createFinancialProvider", providerType |-> providerType,
                    env |-> env]
    /\ call' = NoDispatch
    /\ UNCHANGED <<now, cacheVars, storeVars, loopVars, providerArgs, apiKey, enableCache,
                   sharedVars, lastWrite, selectorVars>>

InitFactory == InitRegistry

NextFactory ==
    \E providerType \in FactoryTypes, env \in FactoryTypes :
        CreateFinancialProvider(providerType, env)

SpecFactory == InitFactory /\ [][NextFactory]_vars

\* The spellings that are 'yahoo' or 'yahoo-finance' when case is ignored.
YahooSpellings == {"yahoo", "Yahoo", "YAHOO", "yahoo-finance", "Yahoo-Finance"}

IsFactoryCall == lastCall.op = "createFinancialProvider"

\* The provider selection, for a chosen type.
SelectedFor(type) ==
    provider = IF type \in YahooSpellings THEN "Yahoo Finance" ELSE "FinancialDatasets"

\* C35 as stated (Provider selection): the type is the argument when one is
\* given (any string, the empty one too), else FINANCIAL_PROVIDER when it is
\* set, else 'financialdatasets'; the factory returns the Yahoo provider
\* exactly when that type is 'yahoo' or 'yahoo-finance' in any case.
C35_ExplicitArgumentFirst ==
    IsFactoryCall =>
        SelectedFor(IF lastCall.providerType # Undefined THEN lastCall.providerType
                    ELSE IF lastCall.env # Undefined THEN lastCall.env
                    ELSE "financialdatasets")

\* C35 amended (Provider selection): the type is the argument when it is a
\* non-empty string, else FINANCIAL_PROVIDER when it is non-empty, else
\* 'financialdatasets'; the factory returns the Yahoo provider exactly when
\* that type is 'yahoo' or 'yahoo-finance' in any case, the FinancialDatasets
\* provider otherwise.
C35_ProviderSelection ==
    IsFactoryCall =>
        SelectedFor(IF lastCall.providerType \notin {Undefined, ""} THEN lastCall.providerType
                    ELSE IF lastCall.env \notin {Undefined, ""} THEN lastCall.env
                    ELSE "financialdatasets")

\* C35 witness: an argument in mixed case selects the Yahoo provider against
\* a FINANCIAL_PROVIDER that names the other one.
C35_Witness ==
    /\ IsFactoryCall
    /\ lastCall.providerType = "Yahoo-Finance"
    /\ lastCall.env = "financialdatasets"
    /\ provider = "Yahoo Finance"

(* ------------------ the provider without an API key ------------------ *)

\* The provider, with or without its key, over a cache directory that
\* another provider instance of the process may have filled.
NextKey ==
    \/ \E c \in OptOutCalls, f \in GetFaults :
          ProviderCall(c, f, TRUE) /\ ProviderFrame
    \/ CacheSet(cacheKeyOf(PricesEndpoint), getPriceHistoryParams("AAPL", NumVal("5")),
                ResultOf(UrlOf(PricesEndpoint, getPriceHistoryParams("AAPL", NumVal("5")))), TRUE)
          /\ UNCHANGED <<providerVars>> /\ ProviderFrame
    \/ IsAvailable /\ ProviderFrame
    \/ ProviderTick /\ ProviderFrame

InitKey == InitOptOut

SpecKey == InitKey /\ [][NextKey]_vars

\* C36 (Missing API key): a data call of a FinancialDatasetsProvider that
\* has no API key raises, performs no upstream fetch and leaves every cache
\* file as it was (a lookup would return a valid entry and delete an expired
\* one), whatever the cache holds; isAvailable never raises and returns
\* false exactly when the provider has no API key.
C36_MissingApiKey ==
    [][/\ (lastCall'.op = "call" /\ ~apiKey)
             => lastCall'.response.threw /\ ~lastCall'.fetched
       /\ (lastCall'.op = "call" /\ lastCall' # lastCall /\ ~apiKey)
             => files' = files
       /\ lastCall'.op = "isAvailable"
             => ~lastCall'.raised /\ (lastCall'.ret <=> apiKey)]_vars

\* C36 witness: a provider without a key and with the cache enabled was
\* called while the cache holds a valid entry for exactly this request; the
\* call raised.
C36_Witness ==
    /\ ~apiKey /\ enableCache
    /\ lastCall.op = "call"
    /\ lastCall.at = now
    /\ lastCall.response.threw
    /\ existsSync(files, CallPath(lastCall.params))
    /\ EntryValid(files[CallPath(lastCall.params)])

(* ====================================================================== *)
(*        ProviderSelector  (src/components, part_000 lines 12-73)        *)
(* ====================================================================== *)

\* At most MaxSelects calls of onSelect are followed.
MaxSelects == 2

\* PROVIDERS, lines 12-37.
PROVIDERS ==
    <<[providerId |-> "openai", modelId |-> "gpt-4o"],
      [providerId |-> "anthropic", modelId |-> "claude-3-5-sonnet-latest"],
      [providerId |-> "google", modelId |-> "gemini-1.5-pro"],
      [providerId |-> "ollama", modelId |-> "ollama-llama3.1"]>>

\* The provider prop: absent, empty, an id of the list, or another text.
ProviderProps == {Undefined, "", "openai", "anthropic", "google", "ollama", "mistral"}

\* PROVIDERS.findIndex((p) => p.providerId === provider): zero-based, -1
\* when no element matches.
findIndex(providerId) ==
    IF \E i \in 1..Len(PROVIDERS) : PROVIDERS[i].providerId = providerId
    THEN (CHOOSE i \in 1..Len(PROVIDERS) : PROVIDERS[i].providerId = providerId) - 1
    ELSE -1

\* The initializer of useState, lines 55-61.
InitialIndex(providerProp) ==
    IF providerProp \notin {Undefined, ""}
    THEN IF findIndex(providerProp) >= 0 THEN findIndex(providerProp) ELSE 0
    ELSE 0

\* The key events ink hands to useInput: the input text and the name of the
\* special key, if it is one.
KeyEvents ==
    {[input |-> "", name |-> "upArrow"], [input |-> "", name |-> "downArrow"],
     [input |-> "k", name |-> "none"], [input |-> "j", name |-> "none"],
     [input |-> "\r", name |-> "return"], [input |-> "", name |-> "escape"],
     [input |-> "K", name |-> "none"], [input |-> "q", name |-> "none"],
     [input |-> "", name |-> "tab"], [input |-> " ", name |-> "none"]}

Max(a, b) == IF a >= b THEN a ELSE b
Min(a, b) == IF a <= b THEN a ELSE b

\* A buggy handler: moving up is not stopped at the first provider.
handleInputNoFloor(prev, key) ==
    IF key.name = "upArrow" \/ key.input = "k"
    THEN [selectedIndex |-> prev - 1, onSelect |-> <<>>]
    ELSE IF key.name = "downArrow" \/ key.input = "j"
    THEN [selectedIndex |-> Min(Len(PROVIDERS) - 1, prev + 1), onSelect |-> <<>>]
    ELSE IF key.name = "return"
    THEN [selectedIndex |-> prev,
          onSelect |-> IF prev + 1 \in 1..Len(PROVIDERS)
                       THEN <<PROVIDERS[prev + 1].providerId>> ELSE <<>>]
    ELSE IF key.name = "escape"
    THEN [selectedIndex |-> prev, onSelect |-> <<Null>>]
    ELSE [selectedIndex |-> prev, onSelect |-> <<>>]

\* The handler of useInput, lines 63-73, on the state prev: the next state
\* and the calls of onSelect it makes.  PROVIDERS[i] of an index outside the
\* list is undefined and reading its providerId throws before onSelect.
handleInput(prev, key) ==
    IF key.name = "upArrow" \/ key.input = "k"
    THEN [selectedIndex |-> Max(0, prev - 1), onSelect |-> <<>>]
    ELSE IF key.name = "downArrow" \/ key.input = "j"
    THEN [selectedIndex |-> Min(Len(PROVIDERS) - 1, prev + 1), onSelect |-> <<>>]
    ELSE IF key.name = "return"
    THEN [selectedIndex |-> prev,
          onSelect |-> IF prev + 1 \in 1..Len(PROVIDERS)
                       THEN <<PROVIDERS[prev + 1].providerId>> ELSE <<>>]
    ELSE IF key.name = "escape"
    THEN [selectedIndex |-> prev, onSelect |-> <<Null>>]
    ELSE [selectedIndex |-> prev, onSelect |-> <<>>]

\* A key is pressed while the component is shown.
HandleInput(key) ==
    LET handled == handleInput(selectedIndex, key)
    IN  /\ Len(onSelectCalls) + Len(handled.onSelect) <= MaxSelects
        /\ selectedIndex' = handled.selectedIndex
        /\ onSelectCalls' = onSelectCalls \o handled.onSelect
        /\ lastKey' = key
        /\ UNCHANGED <<now, cacheVars, storeVars, loopVars, providerVars, sharedVars,
                       registryVars, lastWrite>>

\* The component is mounted with some provider prop.
InitSelector ==
    /\ now = 0
    /\ options = NoOptions /\ ttl = DefaultTTL /\ files = <<>> /\ dirs = ExistingDirs
    /\ lastSet = NoCall /\ lastGet = NoCall
    /\ InitStoreVars
    /\ InitProviderIdle
    /\ InitSharedIdle
    /\ InitLoopIdle
    /\ provider = "none" /\ call = NoDispatch /\ lastWrite = NoCall
    /\ selectedIndex \in {InitialIndex(providerProp) : providerProp \in ProviderProps}
    /\ lastKey = NoKey
    /\ onSelectCalls = <<>>

NextSelector == \E key \in KeyEvents : HandleInput(key)

SpecSelector == InitSelector /\ [][NextSelector]_vars

\* C37 (Provider selector state): after every key event the selected index
\* is one of 0 .. (number of providers - 1); a step that handles Enter adds
\* one call of onSelect, with the providerId at the selected index; a step
\* that handles Escape adds one call, with null; a step that handles any
\* other key adds none.
C37_SelectorState ==
    [][/\ selectedIndex' \in 0..(Len(PROVIDERS) - 1)
       /\ lastKey'.name = "return"
             => onSelectCalls' = Append(onSelectCalls, PROVIDERS[selectedIndex + 1].providerId)
       /\ lastKey'.name = "escape"
             => onSelectCalls' = Append(onSelectCalls, Null)
       /\ lastKey'.name \notin {"return", "escape"}
             => onSelectCalls' = onSelectCalls]_vars

\* C37 witness: the selection was moved to the last provider and kept there
\* by a further down key; Enter chose it and Escape then passed null.
C37_Witness ==
    /\ selectedIndex = Len(PROVIDERS) - 1
    /\ onSelectCalls = <<"ollama", Null>>
    /\ lastKey.name = "escape"

====
